---- MODULE Spec2Model ----
(***************************************************************************)
(* The asynchronous entity driver of tscat_gui and its consistency layer:  *)
(* the worker thread that executes Actions one at a time, the entity cache *)
(* of TscatDriver, the two completion signals and their listeners, and the *)
(* undo commands that submit Actions.                                      *)
(*                                                                         *)
(* Two threads exist.  The owner (UI) thread runs one slot at a time from  *)
(* its event queue ownerQ; the worker thread runs one slot at a time from  *)
(* its event queue workerQ.  A Qt.QueuedConnection posts the slot call to  *)
(* the receiver's event queue; a direct connection calls the slot inside   *)
(* emit().                                                                 *)
(***************************************************************************)
EXTENDS Integers, Sequences, FiniteSets, TLC

VARIABLES
    store,        \* the tscat store: uuid -> entity record, or NoEntity
    links,        \* the store's catalogue/event assignments: cat -> event -> count
    minted,       \* uuids the store has ever assigned or been given
    deletedFrom,  \* history: the store and its assignments when the last
                  \*          DeletePermanentlyAction began
    actions,      \* the Action objects, by submission number
    workerQ,      \* slot calls posted to the worker thread (_do_action)
    executing,    \* actions whose do_action slot is running
    workerRunning,\* the worker QThread's event loop is running
    stopped,      \* stop(): the actions submitted when it was called (-1 before
                  \*          it), and whether the worker was idle then
    ownerQ,       \* slot calls posted to the owner thread
    cache,        \* TscatDriver._entity_cache: uuid -> entity record, or NoEntity
    userSubmitted,\* number of actions submitted from outside (model bound)
    raised,       \* history: actions whose action() raised on the worker
    execOrder,    \* history: actions in the order the worker started them
    cacheOrder,   \* history: actions in the order _worker_action_done ran
    prioOrder,    \* history: per prioritised listener, the actions it handled
    generalOrder, \* history: actions handled by _Model._action_done
    cbOrder,      \* history: actions whose user_callback was called
    staleSeen,    \* history: listener and callback calls that saw a cache
                  \*          differing from an output entity of their action
    selectState,  \* AppState._select_state
    commands,     \* the undo command objects, by creation number
    stack,        \* AppState._undo_stack: command numbers, bottom first
    stackIndex,   \* QUndoStack.index(): stack[1..stackIndex] are applied
    stackMoves,   \* number of undo/redo steps taken (model bound)
    starts,       \* history: <<command, stage it was in, "redo" or "undo",
                  \*            the selection it left, the one it found,
                  \*            the number of actions submitted before it>>
    assertFailed, \* history: commands whose 'assert self.uuid is not None' failed
    nodes,        \* the Node objects of TscatRootModel and the CatalogModels
    catalogues,   \* TscatRootModel._catalogues: catalogue uuid -> CatalogModel
    shownBefore,  \* history: per action TscatRootModel handled, the catalogues
                  \*          the main tree showed before
    connected,    \* the CatalogModels connected to action_done_prioritised,
                  \*          in connection order
    emitted,      \* history: per action a CatalogModel handled, the rows it
                  \*          had, the signals it emitted and the rows it has
    lastLookup    \* history: the last call of entity_from_uuid or
                  \*          event_from_uuid, the cache it found and its answer

storeVars == <<store, links, minted, deletedFrom>>
historyVars == <<raised, execOrder, cacheOrder, prioOrder, generalOrder, cbOrder,
                 staleSeen>>
viewVars == <<nodes, catalogues, shownBefore, connected, emitted, lastLookup>>
undoVars == <<selectState, commands, stack, stackIndex, stackMoves, starts,
              assertFailed>>
vars == <<store, links, minted, deletedFrom, actions, workerQ, executing, workerRunning,
          stopped,
          ownerQ, cache, userSubmitted, raised, execOrder, cacheOrder,
          prioOrder, generalOrder, cbOrder, staleSeen, selectState,
          commands, stack, stackIndex, stackMoves, starts, assertFailed,
          nodes, catalogues, shownBefore, connected, emitted, lastLookup>>

----------------------------------------------------------------------------
(* Bounds of the model. *)

\* actions submitted from outside the model (beyond the two of the constructor)
MaxUserActions == 2
\* the same, where the events of an opened catalogue are worked on
MaxCatalogActions == 4
\* commands pushed on the undo stack
MaxCommands == 1
\* undo/redo steps taken on the undo stack
MaxStackMoves == 2

CatUUIDs == {"c1", "c2"}
EventUUIDs == {"e1", "e2"}
UUIDs == CatUUIDs \cup EventUUIDs
\* attribute values
Values == {"x", "y"}

None == "None"
NoEntity == [uuid |-> None]
Absent == "absent"

\* the order the store returns entities in
Rank(u) == CASE u = "c1" -> 1 [] u = "c2" -> 2 [] u = "e1" -> 3 [] u = "e2" -> 4

RECURSIVE SortedSeq(_)
SortedSeq(S) ==
    IF S = {} THEN <<>>
    ELSE LET m == CHOOSE u \in S : \A v \in S : Rank(u) <= Rank(v)
         IN <<m>> \o SortedSeq(S \ {m})

SeqToSet(s) == {s[i] : i \in 1..Len(s)}

Last(s) == s[Len(s)]

----------------------------------------------------------------------------
(* Entities and the store (the tscat library, as the actions use it). *)

\* the path attribute of a catalogue that has none; such a catalogue is placed
\* where one with an empty path is, directly under the root
NoPath == <<>>

\* an entity snapshot: tscat._Catalogue or tscat._Event
Entity(u, k, rem, a) ==
    [uuid |-> u, kind |-> k, removed |-> rem, attr |-> a, path |-> NoPath,
     predicate |-> None]

KindOf(u) == IF u \in CatUUIDs THEN "Catalogue" ELSE "Event"

Exists(st, u) == u \in UUIDs /\ st[u] # NoEntity

\* get_catalogues(removed_items=r): the catalogues whose removed flag is r
get_catalogues(st, r) ==
    SortedSeq({u \in CatUUIDs : Exists(st, u) /\ st[u].removed = r})

\* get_events(catalogue, removed_items=r, assigned_only=True)[0]
get_events(st, ln, c, r) ==
    SortedSeq({e \in EventUUIDs : ln[c][e] > 0 /\ Exists(st, e) /\ st[e].removed = r})

\* the events the predicate of catalogue c selects: a catalogue's predicate is
\* None or the comparison of the events' attribute with a value
Matching(st, c) ==
    {e \in EventUUIDs :
        /\ st[c].predicate # None
        /\ Exists(st, e)
        /\ st[e].attr = st[c].predicate}

\* get_events(catalogue, removed_items=r): the events assigned to the
\* catalogue and those its predicate selects, and for each whether it is
\* assigned
get_events_query(st, ln, c, r) ==
    LET es == SortedSeq({e \in EventUUIDs :
                            /\ ln[c][e] > 0 \/ e \in Matching(st, c)
                            /\ Exists(st, e)
                            /\ st[e].removed = r})
    IN [events |-> es, query_info |-> [i \in 1..Len(es) |-> ln[c][es[i]] > 0]]

\* add_events_to_catalogue(catalogue, events)
RECURSIVE add_events_to_catalogue(_, _, _)
add_events_to_catalogue(ln, c, es) ==
    IF es = <<>> THEN ln
    ELSE add_events_to_catalogue(
             [ln EXCEPT ![c][Head(es)] = @ + 1], c, Tail(es))

\* remove_events_from_catalogue(catalogue, events)
remove_events_from_catalogue(ln, c, es) ==
    [ln EXCEPT ![c] = [e \in EventUUIDs |-> IF e \in SeqToSet(es) THEN 0 ELSE @[e]]]

\* entity.remove(permanently=True): the entity and its assignments are gone
RemovePermanently(st, ln, u) ==
    [store |-> [st EXCEPT ![u] = NoEntity],
     links |-> [c \in CatUUIDs |-> [e \in EventUUIDs |->
                   IF c = u \/ e = u THEN 0 ELSE ln[c][e]]]]

----------------------------------------------------------------------------
(* Action objects (actions.py).  One record shape serves every Action      *)
(* subclass; a field a subclass does not have keeps its default.           *)
(*   uuids, cat, name, values, flag, cls, args   inputs                    *)
(*   entities   the output list (catalogues, events or entities)           *)
(*   deleted    deleted_entities of DeletePermanently/RestorePermanently   *)
(*   completed  Action.completed                                           *)
(*   filename, import_dict, result   of the import and export actions      *)

NoCallback == [fn |-> "none", cmd |-> 0]

\* The files of the model: in.json holds catalogue c2 and its event e2;
\* broken.json cannot be read or parsed; out.json can be written,
\* denied.json cannot.
ImportFiles == {"in.json", "broken.json"}
ExportFiles == {"out.json", "denied.json"}

\* import_dict is None
NoDict == [none |-> TRUE, catalogues |-> <<>>, events |-> <<>>]
\* the canonicalized content of in.json
InDict == [none |-> FALSE, catalogues |-> <<"c2">>, events |-> <<"e2">>]

\* the exception an importer or exporter ends with
Error == "Exception"

Action(type, cb) ==
    [type |-> type, user_callback |-> cb, uuids |-> <<>>, cat |-> None,
     name |-> "attr", values |-> <<>>, flag |-> FALSE, cls |-> None,
     args |-> [uuid |-> None, attr |-> Absent, path |-> NoPath],
     entities |-> <<>>, deleted |-> <<>>, completed |-> FALSE,
     filename |-> None, import_dict |-> NoDict, result |-> None,
     query_info |-> <<>>]

GetCataloguesAction(cb, removed_items) ==
    [Action("GetCatalogues", cb) EXCEPT !.flag = removed_items]
GetCatalogueAction(cb, uuid, removed_items) ==
    [Action("GetCatalogue", cb) EXCEPT !.cat = uuid, !.flag = removed_items]
CreateEntityAction(cb, cls, args) ==
    [Action("CreateEntity", cb) EXCEPT !.cls = cls, !.args = args]
RemoveEntitiesAction(cb, uuids, permanently) ==
    [Action("RemoveEntities", cb) EXCEPT !.uuids = uuids, !.flag = permanently]
\* (an AddEventsToCatalogueAction that forgets the uuids it is given)
AddNoEventsToCatalogueAction(cb, uuids, catalogue_uuid) ==
    [Action("AddEventsToCatalogue", cb) EXCEPT !.cat = catalogue_uuid]
AddEventsToCatalogueAction(cb, uuids, catalogue_uuid) ==
    [Action("AddEventsToCatalogue", cb) EXCEPT !.uuids = uuids, !.cat = catalogue_uuid]
RemoveEventsFromCatalogueAction(cb, uuids, catalogue_uuid) ==
    [Action("RemoveEventsFromCatalogue", cb) EXCEPT !.uuids = uuids, !.cat = catalogue_uuid]
SetAttributeAction(cb, uuids, name, values) ==
    [Action("SetAttribute", cb) EXCEPT !.uuids = uuids, !.name = name, !.values = values]
DeleteAttributeAction(cb, uuids, name) ==
    [Action("DeleteAttribute", cb) EXCEPT !.uuids = uuids, !.name = name]
MoveToTrashAction(cb, uuids) ==
    [Action("MoveToTrash", cb) EXCEPT !.uuids = uuids]
RestoreFromTrashAction(cb, uuids) ==
    [Action("RestoreFromTrash", cb) EXCEPT !.uuids = uuids]
DeletePermanentlyAction(cb, uuids) ==
    [Action("DeletePermanently", cb) EXCEPT !.uuids = uuids]
RestorePermanentlyDeletedAction(cb, deleted_entities) ==
    [Action("RestorePermanentlyDeleted", cb) EXCEPT !.deleted = deleted_entities]

CanonicalizeImportAction(cb, filename) ==
    [Action("CanonicalizeImport", cb) EXCEPT !.filename = filename]
ImportCanonicalizedDictAction(cb, import_dict) ==
    [Action("ImportCanonicalizedDict", cb) EXCEPT !.import_dict = import_dict]
ExportAction(cb, filename, catalogue_uuids) ==
    [Action("Export", cb) EXCEPT !.filename = filename, !.uuids = catalogue_uuids]

\* _DeletedEntity
DeletedEntity(type, in_trash, data, linked_uuids) ==
    [type |-> type, in_trash |-> in_trash, data |-> data,
     linked_uuids |-> linked_uuids, restored_entity |-> NoEntity]

\* What action() leaves behind: ok is FALSE when it raised.
Res(ok, st, ln, mt, a) ==
    [ok |-> ok, store |-> st, links |-> ln, minted |-> mt, act |-> a]

\* Action._entity: the entity of that uuid, trashed or not; asserts it exists
EntityFound(st, u) == Exists(st, u)
\* Action._event: the same, among the events only
EventFound(st, u) == Exists(st, u) /\ st[u].kind = "Event"

Min(a, b) == IF a < b THEN a ELSE b

GetCataloguesRun(a, st, ln, mt) ==
    Res(TRUE, st, ln, mt,
        [a EXCEPT !.entities = [i \in 1..Len(get_catalogues(st, a.flag)) |->
                                   st[get_catalogues(st, a.flag)[i]]]])

GetCatalogueRun(a, st, ln, mt) ==
    IF ~(Exists(st, a.cat) /\ st[a.cat].kind = "Catalogue")
    THEN Res(FALSE, st, ln, mt, a)       \* catalogues[0] on an empty list
    ELSE LET q == get_events_query(st, ln, a.cat, a.flag)
             es == q.events
         IN Res(TRUE, st, ln, mt,
                [a EXCEPT !.entities = [i \in 1..Len(es) |-> st[es[i]]],
                          !.query_info = q.query_info])

FreshUuid(mt, cls) ==
    LET pool == IF cls = "Catalogue" THEN CatUUIDs ELSE EventUUIDs
    IN CHOOSE u \in pool \ mt : \A v \in pool \ mt : Rank(u) <= Rank(v)

CreateEntityRun(a, st, ln, mt) ==
    LET u == IF a.args.uuid = None THEN FreshUuid(mt, a.cls) ELSE a.args.uuid
        e == [Entity(u, a.cls, FALSE, a.args.attr) EXCEPT !.path = a.args.path]
    IN IF Exists(st, u) \/ KindOf(u) # a.cls
       THEN Res(FALSE, st, ln, mt, a)    \* the store refuses a second entity of a uuid
       ELSE Res(TRUE, [st EXCEPT ![u] = e], ln, mt \cup {u},
                [a EXCEPT !.entities = <<e>>])

RECURSIVE RemoveEntitiesLoop(_, _, _, _, _)
RemoveEntitiesLoop(a, i, st, ln, mt) ==
    IF i > Len(a.uuids) THEN Res(TRUE, st, ln, mt, a)
    ELSE LET u == a.uuids[i] IN
         IF ~EntityFound(st, u) THEN Res(FALSE, st, ln, mt, a)
         ELSE IF a.flag
              THEN LET r == RemovePermanently(st, ln, u)
                   IN RemoveEntitiesLoop(a, i + 1, r.store, r.links, mt)
              ELSE RemoveEntitiesLoop(a, i + 1, [st EXCEPT ![u].removed = TRUE], ln, mt)

RemoveEntitiesRun(a, st, ln, mt) == RemoveEntitiesLoop(a, 1, st, ln, mt)

\* (every event of the store counts as already in the catalogue)
EveryEventUuids(st, ln, c) == {e \in EventUUIDs : Exists(st, e)}

\* existing_events_uuids of AddEventsToCatalogueAction.action
ExistingEventsUuids(st, ln, c) == SeqToSet(get_events(st, ln, c, FALSE))

AddEventsToCatalogueRun(a, st, ln, mt) ==
    IF ~(EntityFound(st, a.cat) /\ st[a.cat].kind = "Catalogue")
    THEN Res(FALSE, st, ln, mt, a)
    ELSE LET new == SortedSeq(SeqToSet(a.uuids) \ ExistingEventsUuids(st, ln, a.cat))
             a2 == [a EXCEPT !.uuids = new]
         IN IF \E i \in 1..Len(new) : ~EventFound(st, new[i])
            THEN Res(FALSE, st, ln, mt, a2)
            ELSE Res(TRUE, st, add_events_to_catalogue(ln, a.cat, new), mt, a2)

RemoveEventsFromCatalogueRun(a, st, ln, mt) ==
    IF ~(EntityFound(st, a.cat) /\ st[a.cat].kind = "Catalogue")
       \/ \E i \in 1..Len(a.uuids) : ~EventFound(st, a.uuids[i])
    THEN Res(FALSE, st, ln, mt, a)
    ELSE Res(TRUE, st, remove_events_from_catalogue(ln, a.cat, a.uuids), mt, a)

RECURSIVE SetAttributeLoop(_, _, _, _, _)
SetAttributeLoop(a, i, st, ln, mt) ==
    IF i > Min(Len(a.uuids), Len(a.values)) THEN Res(TRUE, st, ln, mt, a)
    ELSE LET u == a.uuids[i] IN
         IF ~EntityFound(st, u) THEN Res(FALSE, st, ln, mt, a)
         ELSE LET st2 == [st EXCEPT ![u][a.name] = a.values[i]]
              IN SetAttributeLoop([a EXCEPT !.entities = Append(@, st2[u])],
                                  i + 1, st2, ln, mt)

SetAttributeRun(a, st, ln, mt) == SetAttributeLoop(a, 1, st, ln, mt)

RECURSIVE DeleteAttributeLoop(_, _, _, _, _)
DeleteAttributeLoop(a, i, st, ln, mt) ==
    IF i > Len(a.uuids) THEN Res(TRUE, st, ln, mt, a)
    ELSE LET u == a.uuids[i] IN
         IF ~EntityFound(st, u) \/ st[u][a.name] = Absent
         THEN Res(FALSE, st, ln, mt, a)
         ELSE LET st2 == [st EXCEPT ![u][a.name] = Absent]
              IN DeleteAttributeLoop([a EXCEPT !.entities = Append(@, st2[u])],
                                     i + 1, st2, ln, mt)

\* (a missing attribute ends the action without an error)
DeleteAttributeQuiet(a, st, ln, mt) ==
    [DeleteAttributeLoop(a, 1, st, ln, mt) EXCEPT !.ok = TRUE]

\* DeleteAttributeAction.action: entity.__delattr__(name) raises
\* AttributeError for an attribute the entity does not have
DeleteAttributeRun(a, st, ln, mt) == DeleteAttributeLoop(a, 1, st, ln, mt)

\* MoveToTrashAction (rem = TRUE) and RestoreFromTrashAction (rem = FALSE)
RECURSIVE TrashLoop(_, _, _, _, _, _)
TrashLoop(a, rem, i, st, ln, mt) ==
    IF i > Len(a.uuids) THEN Res(TRUE, st, ln, mt, a)
    ELSE LET u == a.uuids[i] IN
         IF ~EntityFound(st, u) THEN Res(FALSE, st, ln, mt, a)
         ELSE LET st2 == [st EXCEPT ![u].removed = rem]
              IN TrashLoop([a EXCEPT !.entities = Append(@, st2[u])],
                           rem, i + 1, st2, ln, mt)

MoveToTrashRun(a, st, ln, mt) == TrashLoop(a, TRUE, 1, st, ln, mt)
RestoreFromTrashRun(a, st, ln, mt) == TrashLoop(a, FALSE, 1, st, ln, mt)

\* linked_uuids of DeletePermanentlyAction.action
LinkedUuids(st, ln, u) ==
    IF st[u].kind = "Catalogue"
    THEN get_events(st, ln, u, FALSE)
    ELSE SortedSeq({c \in CatUUIDs : ln[c][u] > 0 /\ Exists(st, c) /\ ~st[c].removed})

RECURSIVE DeletePermanentlyLoop(_, _, _, _, _)
DeletePermanentlyLoop(a, i, st, ln, mt) ==
    IF i > Len(a.uuids) THEN Res(TRUE, st, ln, mt, a)
    ELSE LET u == a.uuids[i] IN
         IF ~EntityFound(st, u) THEN Res(FALSE, st, ln, mt, a)
         ELSE LET d == DeletedEntity(st[u].kind, st[u].removed,
                                     [uuid |-> u, attr |-> st[u].attr,
                                      path |-> st[u].path,
                                      predicate |-> st[u].predicate],
                                     LinkedUuids(st, ln, u))
                  r == RemovePermanently(st, ln, u)
              IN DeletePermanentlyLoop([a EXCEPT !.deleted = Append(@, d)],
                                       i + 1, r.store, r.links, mt)

DeletePermanentlyRun(a, st, ln, mt) == DeletePermanentlyLoop(a, 1, st, ln, mt)

RECURSIVE RestorePermanentlyDeletedLoop(_, _, _, _, _)
RestorePermanentlyDeletedLoop(a, i, st, ln, mt) ==
    IF i > Len(a.deleted) THEN Res(TRUE, st, ln, mt, a)
    ELSE LET d == a.deleted[i]
             u == d.data.uuid
         IN IF Exists(st, u) THEN Res(FALSE, st, ln, mt, a)   \* create_* refuses
            ELSE LET created == [Entity(u, d.type, FALSE, d.data.attr)
                                    EXCEPT !.path = d.data.path,
                                           !.predicate = d.data.predicate]
                     \* e.restored_entity = entity; then entity.remove() if in_trash
                     st2 == [st EXCEPT ![u] = [created EXCEPT !.removed = d.in_trash]]
                     a2 == [a EXCEPT !.deleted[i].restored_entity = st2[u]]
                     L == d.linked_uuids
                 IN IF d.type = "Catalogue"
                    THEN IF \E j \in 1..Len(L) : ~EventFound(st2, L[j])
                         THEN Res(FALSE, st2, ln, mt \cup {u}, a2)
                         ELSE RestorePermanentlyDeletedLoop(
                                  a2, i + 1, st2, add_events_to_catalogue(ln, u, L),
                                  mt \cup {u})
                    ELSE IF \E j \in 1..Len(L) :
                               ~(EntityFound(st2, L[j]) /\ st2[L[j]].kind = "Catalogue")
                         THEN Res(FALSE, st2, ln, mt \cup {u}, a2)
                         ELSE RestorePermanentlyDeletedLoop(
                                  a2, i + 1, st2,
                                  [c \in CatUUIDs |-> [e \in EventUUIDs |->
                                      IF c \in SeqToSet(L) /\ e = u
                                      THEN ln[c][e] + 1 ELSE ln[c][e]]],
                                  mt \cup {u})

RestorePermanentlyDeletedRun(a, st, ln, mt) ==
    RestorePermanentlyDeletedLoop(a, 1, st, ln, mt)

\* (the exception of the importer leaves action())
CanonicalizeImportRaising(a, st, ln, mt) ==
    IF a.filename = "in.json"
    THEN Res(TRUE, st, ln, mt, [a EXCEPT !.import_dict = InDict])
    ELSE Res(FALSE, st, ln, mt, a)

\* CanonicalizeImportAction.action: the importer reads and parses the file;
\* its exception is caught and kept in result
CanonicalizeImportRun(a, st, ln, mt) ==
    IF a.filename = "in.json"
    THEN Res(TRUE, st, ln, mt, [a EXCEPT !.import_dict = InDict])
    ELSE Res(TRUE, st, ln, mt, [a EXCEPT !.result = Error])

\* (an ImportCanonicalizedDictAction that creates nothing)
ImportNothingRun(a, st, ln, mt) == Res(TRUE, st, ln, mt, a)

\* ImportCanonicalizedDictAction.action: import_canonicalized_dict creates
\* the events and the catalogues of the dict, each catalogue holding the
\* events; the store refuses a second entity of a uuid
ImportCanonicalizedDictRun(a, st, ln, mt) ==
    LET cs == a.import_dict.catalogues
        es == a.import_dict.events
        made == [u \in UUIDs |->
                    IF u \in SeqToSet(cs) \cup SeqToSet(es)
                    THEN Entity(u, KindOf(u), FALSE, Absent) ELSE st[u]]
    IN IF \E u \in SeqToSet(cs) \cup SeqToSet(es) : Exists(st, u)
       THEN Res(FALSE, st, ln, mt, a)
       ELSE Res(TRUE, made,
                [c \in CatUUIDs |-> [e \in EventUUIDs |->
                    IF c \in SeqToSet(cs) /\ e \in SeqToSet(es) THEN 1 ELSE ln[c][e]]],
                mt \cup SeqToSet(cs) \cup SeqToSet(es),
                [a EXCEPT !.entities = [i \in 1..Len(cs) |-> made[cs[i]]]])

\* ExportAction.action: an exception of _entity or of the exporter is caught
\* and kept in result, and so is the exception the exporter returns when it
\* cannot write the file
ExportRun(a, st, ln, mt) ==
    IF \E i \in 1..Len(a.uuids) : ~EntityFound(st, a.uuids[i])
    THEN Res(TRUE, st, ln, mt, [a EXCEPT !.result = Error])
    ELSE IF a.filename # "out.json"
    THEN Res(TRUE, st, ln, mt, [a EXCEPT !.result = Error])
    ELSE Res(TRUE, st, ln, mt, a)

\* action.action(), by subclass
Run(a, st, ln, mt) ==
    CASE a.type = "GetCatalogues" -> GetCataloguesRun(a, st, ln, mt)
      [] a.type = "GetCatalogue" -> GetCatalogueRun(a, st, ln, mt)
      [] a.type = "CreateEntity" -> CreateEntityRun(a, st, ln, mt)
      [] a.type = "RemoveEntities" -> RemoveEntitiesRun(a, st, ln, mt)
      [] a.type = "AddEventsToCatalogue" -> AddEventsToCatalogueRun(a, st, ln, mt)
      [] a.type = "RemoveEventsFromCatalogue" -> RemoveEventsFromCatalogueRun(a, st, ln, mt)
      [] a.type = "SetAttribute" -> SetAttributeRun(a, st, ln, mt)
      [] a.type = "DeleteAttribute" -> DeleteAttributeRun(a, st, ln, mt)
      [] a.type = "MoveToTrash" -> MoveToTrashRun(a, st, ln, mt)
      [] a.type = "RestoreFromTrash" -> RestoreFromTrashRun(a, st, ln, mt)
      [] a.type = "DeletePermanently" -> DeletePermanentlyRun(a, st, ln, mt)
      [] a.type = "RestorePermanentlyDeleted" -> RestorePermanentlyDeletedRun(a, st, ln, mt)
      [] a.type = "CanonicalizeImport" -> CanonicalizeImportRun(a, st, ln, mt)
      [] a.type = "ImportCanonicalizedDict" -> ImportCanonicalizedDictRun(a, st, ln, mt)
      [] a.type = "Export" -> ExportRun(a, st, ln, mt)

----------------------------------------------------------------------------
(* TscatDriver and its worker (driver.py). *)

\* (a slot call posted in front of the calls already posted)
PostFront(q, call) == <<call>> \o q

\* a queued connection posts the slot call behind the calls already posted
Post(q, call) == Append(q, call)

WorkerActionDoneCall(id) ==
    [slot |-> "_worker_action_done", listener |-> None, action |-> id]
DriverActionDoneCall(l, id) ==
    [slot |-> "_driver_action_done", listener |-> l, action |-> id]
CatalogActionDoneCall(m, id) ==
    [slot |-> "CatalogModel._driver_action_done", listener |-> m, action |-> id]

\* the listeners connected to action_done_prioritised, in connection order
SortedListeners == <<"TscatRootModel">>
PrioListeners == SeqToSet(SortedListeners)

\* the entities an action reports: entities, entity, catalogues, events,
\* and the restored_entity of each of its deleted_entities
OutputEntities(a) ==
    (SeqToSet(a.entities) \cup
     {a.deleted[i].restored_entity : i \in 1..Len(a.deleted)}) \ {NoEntity}

RECURSIVE CachePutAll(_, _)
CachePutAll(c, es) ==
    IF es = <<>> THEN c
    ELSE CachePutAll([c EXCEPT ![Head(es).uuid] = Head(es)], Tail(es))

\* the cache update of TscatDriver._worker_action_done
CacheUpdate(c, a) ==
    IF a.type \in {"GetCatalogues", "GetCatalogue", "CreateEntity",
                   "SetAttribute", "DeleteAttribute", "ImportCanonicalizedDict"}
    THEN CachePutAll(c, a.entities)
    ELSE IF a.type = "RemoveEntities"
    THEN [u \in UUIDs |-> IF u \in SeqToSet(a.uuids) THEN NoEntity ELSE c[u]]
    ELSE c

\* entity_from_uuid(u) answers e
CacheHolds(c, e) == c[e.uuid] = e

\* What a lookup leaves: ok is FALSE when it raised, value is what it
\* returned, cache is the cache afterwards.
Looked(ok, value, c) == [ok |-> ok, value |-> value, cache |-> c]

\* (a uuid that is not in the cache answers None)
EntityFromUuidOrNone(c, u) == Looked(TRUE, c[u], c)

\* TscatDriver.entity_from_uuid: self._entity_cache[uuid], a KeyError when
\* the uuid is not a key of the dict
entity_from_uuid(c, u) ==
    IF c[u] = NoEntity THEN Looked(FALSE, NoEntity, c) ELSE Looked(TRUE, c[u], c)

\* isinstance(entity, _Event)
IsEvent(e) == e # NoEntity /\ e.kind = "Event"

\* TscatDriver.event_from_uuid
event_from_uuid(c, u) ==
    LET r == entity_from_uuid(c, u)
    IN IF r.ok /\ ~IsEvent(r.value) THEN Looked(FALSE, NoEntity, r.cache) ELSE r

NoLookup == [fn |-> None]

\* stop() has not been called
NotStopped == [at |-> -1, idle |-> FALSE]

\* some output entity of the action is not what entity_from_uuid answers
Stale(c, a) == \E e \in OutputEntities(a) : ~CacheHolds(c, e)

----------------------------------------------------------------------------
(* The node trees (nodes.py).  A node is an entry of the sequence it lives  *)
(* in and its position there is its identity; NoNode stands for None.       *)

NoNode == 0

Node(cls, entity, name) ==
    [cls |-> cls, parent |-> NoNode, children |-> <<>>, entity |-> entity,
     name |-> name, assigned |-> FALSE]

RootNode == Node("RootNode", NoEntity, None)
TrashNode == Node("TrashNode", NoEntity, "Trash")
FolderNode(name) == Node("FolderNode", NoEntity, name)
CatalogNode(catalog) == Node("CatalogNode", catalog, None)
EventNode(event, assigned) ==
    [Node("EventNode", event, None) EXCEPT !.assigned = assigned]

\* Node.uuid
NodeUuid(nd) ==
    IF nd.cls \in {"CatalogNode", "EventNode"} THEN nd.entity.uuid
    ELSE IF nd.cls = "FolderNode" THEN "path-uuid"
    ELSE "00000000-0000-0000-0000-000000000000"

\* FolderNode.full_path, NoNode and any other node giving the empty path
RECURSIVE full_path(_, _)
full_path(ns, n) ==
    IF n = NoNode THEN <<>>
    ELSE IF ns[n].cls # "FolderNode" THEN <<>>
    ELSE Append(full_path(ns, ns[n].parent), ns[n].name)

\* the nodes of the subtree of n
RECURSIVE Below(_, _)
Below(ns, n) ==
    {n} \cup UNION {Below(ns, ns[n].children[i]) : i \in 1..Len(ns[n].children)}

\* Node.append_children: the list grows, then every child gets the parent
append_children(ns, n, cs) ==
    LET grown == [ns EXCEPT ![n].children = @ \o cs]
    IN [i \in 1..Len(ns) |->
           IF i \in SeqToSet(cs) THEN [grown[i] EXCEPT !.parent = n] ELSE grown[i]]

\* Node.append_child
append_child(ns, n, c) == append_children(ns, n, <<c>>)

\* Node.set_children: the former children keep their parent reference
set_children(ns, n, cs) == append_children([ns EXCEPT ![n].children = <<>>], n, cs)

\* list.remove: the first occurrence goes
RemoveFirst(s, x) ==
    LET i == CHOOSE j \in 1..Len(s) : s[j] = x /\ \A k \in 1..(j - 1) : s[k] # x
    IN SubSeq(s, 1, i - 1) \o SubSeq(s, i + 1, Len(s))

\* (the child leaves the list and keeps its parent)
RemoveChildKeepingParent(ns, n, c) ==
    [ns EXCEPT ![n].children = RemoveFirst(@, c)]

\* Node.remove_child, for a child of the list
remove_child(ns, n, c) ==
    [ns EXCEPT ![n].children = RemoveFirst(@, c), ![c].parent = NoNode]

----------------------------------------------------------------------------
(* TscatRootModel (tscat_root_model.py): the tree of folders and            *)
(* catalogues with its Trash subtree.                                       *)

\* self._root and self._trash
Root == 1
Trash == 2

\* TscatRootModel.__init__: the root with the trash node as its only child
InitialNodes == append_child(<<RootNode, TrashNode>>, Root, Trash)

\* a tree and a node of it
At(ns, n) == [nodes |-> ns, node |-> n]

\* the first child of parent that is a folder of that name, or NoNode
FolderChild(ns, parent, folder) ==
    LET kids == ns[parent].children
        hits == {j \in 1..Len(kids) :
                    ns[kids[j]].cls = "FolderNode" /\ ns[kids[j]].name = folder}
    IN IF hits = {} THEN NoNode
       ELSE kids[CHOOSE j \in hits : \A k \in hits : j <= k]

\* the loop of TscatRootModel.node_from_path, from parent on
RECURSIVE NodeFromPathLoop(_, _, _)
NodeFromPathLoop(ns, parent, path) ==
    IF path = <<>> THEN At(ns, parent)
    ELSE LET child == FolderChild(ns, parent, Head(path))
             new == Len(ns) + 1
         IN IF child # NoNode THEN NodeFromPathLoop(ns, child, Tail(path))
            ELSE NodeFromPathLoop(
                     append_child(Append(ns, FolderNode(Head(path))), parent, new),
                     new, Tail(path))

node_from_path(ns, path) == NodeFromPathLoop(ns, Root, path)

\* TscatRootModel._node_from_catalogue_path
node_from_catalogue_path(ns, c) == node_from_path(ns, c.path)

\* the depth-first search of TscatRootModel._node_from_uuid: the stack's last
\* node is looked at next; the children of a catalogue are not searched
RECURSIVE NodeFromUuidLoop(_, _, _)
NodeFromUuidLoop(ns, todo, uuid) ==
    IF todo = <<>> THEN NoNode
    ELSE LET n == Last(todo)
             rest == SubSeq(todo, 1, Len(todo) - 1)
         IN IF ns[n].cls \in {"CatalogNode", "FolderNode"} /\ NodeUuid(ns[n]) = uuid
            THEN n
            ELSE NodeFromUuidLoop(ns,
                     IF ns[n].cls # "CatalogNode" THEN rest \o ns[n].children ELSE rest,
                     uuid)

node_from_uuid(ns, uuid) == NodeFromUuidLoop(ns, <<Root>>, uuid)

\* (the node is found and stays where it is)
GetNodeFromUuidKeeping(ns, uuid) == At(ns, node_from_uuid(ns, uuid))

\* TscatRootModel._get_node_from_uuid_and_remove_from_tree
get_node_from_uuid_and_remove_from_tree(ns, uuid) ==
    LET n == node_from_uuid(ns, uuid)
    IN IF n = NoNode THEN At(ns, NoNode)
       ELSE At(remove_child(ns, ns[n].parent, n), n)

\* (a catalogue that is not in trash is put directly under the root)
InsertAtRootOrTrash(ns, n) ==
    append_child(ns, IF ns[n].entity.removed THEN Trash ELSE Root, n)

\* TscatRootModel._insert_catalogue_node_at_node_path_or_trash
insert_catalogue_node_at_node_path_or_trash(ns, n) ==
    IF ns[n].entity.removed
    THEN append_child(ns, Trash, n)
    ELSE LET at == node_from_catalogue_path(ns, ns[n].entity)
         IN append_child(at.nodes, at.node, n)

\* a new CatalogNode for the catalogue, inserted
InsertNewCatalogNode(ns, c) ==
    insert_catalogue_node_at_node_path_or_trash(Append(ns, CatalogNode(c)), Len(ns) + 1)

\* the nodes of the main tree, and those of the Trash subtree
MainNodes(ns) == UNION {Below(ns, c) : c \in SeqToSet(ns[Root].children) \ {Trash}}
TrashNodes(ns) == Below(ns, Trash) \ {Trash}

\* the CatalogNodes among S that carry catalogue u
CatalogNodesOf(ns, S, u) ==
    {n \in S : ns[n].cls = "CatalogNode" /\ ns[n].entity.uuid = u}

\* the catalogues the main tree shows
ShownCatalogues(ns) ==
    {ns[n].entity : n \in {m \in MainNodes(ns) : ns[m].cls = "CatalogNode"}}

\* what a listener works on: the nodes and the CatalogModels by catalogue
View(ns, cms) == [nodes |-> ns, catalogues |-> cms]

\* a CatalogModel: its _root, a CatalogNode of the tree, and its own _trash
CatalogModel(root, trash) == [root |-> root, trash |-> trash]

NoModel == CatalogModel(NoNode, NoNode)

\* GetCataloguesAction(removed_items=False): the main tree is built anew
RECURSIVE RootFillMain(_, _, _)
RootFillMain(ns, cs, i) ==
    IF i > Len(cs) THEN ns
    ELSE LET at == node_from_catalogue_path(ns, cs[i])
             new == Len(at.nodes) + 1
         IN RootFillMain(append_child(Append(at.nodes, CatalogNode(cs[i])), at.node, new),
                         cs, i + 1)

\* GetCataloguesAction(removed_items=True): the Trash subtree is built anew
RootFillTrash(ns, cs) ==
    set_children(ns \o [i \in 1..Len(cs) |-> CatalogNode(cs[i])], Trash,
                 [i \in 1..Len(cs) |-> Len(ns) + i])

\* RemoveEntitiesAction, DeletePermanentlyAction
RECURSIVE RootRemove(_, _, _)
RootRemove(v, uuids, i) ==
    IF i > Len(uuids) THEN v
    ELSE LET got == get_node_from_uuid_and_remove_from_tree(v.nodes, uuids[i])
         IN IF got.node = NoNode THEN RootRemove(v, uuids, i + 1)
            ELSE RootRemove(
                     View(got.nodes,
                          [v.catalogues EXCEPT ![uuids[i]] = NoModel]),
                     uuids, i + 1)

\* MoveToTrashAction, RestoreFromTrashAction: zip(action.uuids, action.entities)
RECURSIVE RootMove(_, _, _)
RootMove(ns, a, i) ==
    IF i > Min(Len(a.uuids), Len(a.entities)) THEN ns
    ELSE LET got == get_node_from_uuid_and_remove_from_tree(ns, a.uuids[i])
         IN IF got.node = NoNode THEN RootMove(ns, a, i + 1)
            ELSE RootMove(
                     insert_catalogue_node_at_node_path_or_trash(
                         [got.nodes EXCEPT ![got.node].entity = a.entities[i]],
                         got.node),
                     a, i + 1)

\* RestorePermanentlyDeletedAction
RECURSIVE RootRestore(_, _, _)
RootRestore(ns, a, i) ==
    IF i > Len(a.deleted) THEN ns
    ELSE LET e == a.deleted[i].restored_entity
         IN IF e # NoEntity /\ e.kind = "Catalogue"
            THEN RootRestore(InsertNewCatalogNode(ns, e), a, i + 1)
            ELSE RootRestore(ns, a, i + 1)

\* ImportCanonicalizedDictAction
RECURSIVE RootImport(_, _, _)
RootImport(ns, cs, i) ==
    IF i > Len(cs) THEN ns
    ELSE RootImport(InsertNewCatalogNode(ns, cs[i]), cs, i + 1)

\* SetAttributeAction, DeleteAttributeAction
RECURSIVE RootSetAttribute(_, _, _)
RootSetAttribute(ns, a, i) ==
    IF i > Len(a.entities) THEN ns
    ELSE LET c == a.entities[i]
             n == node_from_uuid(ns, c.uuid)
         IN IF c.kind # "Catalogue" \/ n = NoNode THEN RootSetAttribute(ns, a, i + 1)
            ELSE LET swapped == [ns EXCEPT ![n].entity = c]
                 IN IF a.name = "path"
                    THEN LET got == get_node_from_uuid_and_remove_from_tree(swapped, c.uuid)
                         IN RootSetAttribute(
                                insert_catalogue_node_at_node_path_or_trash(
                                    got.nodes, got.node),
                                a, i + 1)
                    ELSE RootSetAttribute(swapped, a, i + 1)

\* TscatRootModel._driver_action_done
RootDriverActionDone(v, a) ==
    CASE a.type = "GetCatalogues" ->
            IF a.flag
            THEN View(RootFillTrash(set_children(v.nodes, Trash, <<>>), a.entities),
                      v.catalogues)
            ELSE View(RootFillMain(set_children(v.nodes, Root, <<Trash>>), a.entities, 1),
                      v.catalogues)
      [] a.type = "CreateEntity" ->
            IF a.entities[1].kind = "Catalogue"
            THEN View(InsertNewCatalogNode(v.nodes, a.entities[1]), v.catalogues)
            ELSE v
      [] a.type \in {"RemoveEntities", "DeletePermanently"} -> RootRemove(v, a.uuids, 1)
      [] a.type \in {"MoveToTrash", "RestoreFromTrash"} ->
            View(RootMove(v.nodes, a, 1), v.catalogues)
      [] a.type = "RestorePermanentlyDeleted" ->
            View(RootRestore(v.nodes, a, 1), v.catalogues)
      [] a.type \in {"SetAttribute", "DeleteAttribute"} ->
            View(RootSetAttribute(v.nodes, a, 1), v.catalogues)
      [] a.type = "ImportCanonicalizedDict" ->
            View(RootImport(v.nodes, a.entities, 1), v.catalogues)
      [] OTHER -> v

----------------------------------------------------------------------------
(* CatalogModel (catalog_model.py): the table of the events of one          *)
(* catalogue.  Its rows are the children of its _root and are numbered from *)
(* 0.  The attribute names of the model do not include 'predicate', so the  *)
(* refresh() of the SetAttribute branch is never called.                    *)

\* a signal of the QAbstractTableModel and the rows it covers
Signal(name, first, last) == [signal |-> name, first |-> first, last |-> last]

\* what _driver_action_done leaves: the nodes, and the signals in emission order
Handled(ns, sigs) == [nodes |-> ns, signals |-> sigs]

\* CatalogModel.rowCount
rowCount(ns, m) == Len(ns[m.root].children)

\* the uuids of the rows, first row first
Rows(ns, m) == [i \in 1..rowCount(ns, m) |-> NodeUuid(ns[ns[m.root].children[i]])]

\* [EventNode(e, True) for e in es], appended to the nodes, and where they are
WithEventNodes(ns, es) == ns \o [i \in 1..Len(es) |-> EventNode(es[i], TRUE)]
NewNodes(ns, k) == [i \in 1..k |-> Len(ns) + i]

\* GetCatalogueAction
CatalogGetCatalogue(ns, m, a) ==
    IF a.cat # NodeUuid(ns[m.root]) THEN Handled(ns, <<>>)
    ELSE LET grown == ns \o [i \in 1..Len(a.entities) |->
                                EventNode(a.entities[i], a.query_info[i])]
             children == NewNodes(ns, Len(a.entities))
         IN IF a.flag
            THEN Handled(set_children(grown, m.trash, children), <<>>)
            ELSE Handled(set_children(grown, m.root, children),
                         <<Signal("modelReset", 0, Len(children) - 1)>>)

\* child.node = e for the EventNodes of e among the children of n
SetNode(ns, n, e) ==
    [i \in 1..Len(ns) |->
        IF /\ i \in SeqToSet(ns[n].children)
           /\ ns[i].cls = "EventNode"
           /\ NodeUuid(ns[i]) = e.uuid
        THEN [ns[i] EXCEPT !.entity = e] ELSE ns[i]]

\* dataChanged for every row of e, from row i - 1 on
RECURSIVE DataChangedFrom(_, _, _, _)
DataChangedFrom(ns, m, e, i) ==
    IF i > rowCount(ns, m) THEN <<>>
    ELSE (IF Rows(ns, m)[i] = e.uuid THEN <<Signal("dataChanged", i - 1, i - 1)>>
          ELSE <<>>) \o DataChangedFrom(ns, m, e, i + 1)

\* SetAttributeAction, DeleteAttributeAction
RECURSIVE CatalogSetAttribute(_, _, _, _, _)
CatalogSetAttribute(ns, m, a, i, sigs) ==
    IF i > Len(a.entities) THEN Handled(ns, sigs)
    ELSE LET e == a.entities[i]
         IN IF e.kind # "Event" THEN CatalogSetAttribute(ns, m, a, i + 1, sigs)
            ELSE CatalogSetAttribute(SetNode(SetNode(ns, m.root, e), m.trash, e),
                                     m, a, i + 1,
                                     sigs \o DataChangedFrom(ns, m, e, 1))

\* new EventNodes for the events es: the removed ones go to _trash, the others
\* become rows; beginInsertRows is called whatever the number of new rows
InsertEventNodes(ns, m, es) ==
    LET grown == WithEventNodes(ns, es)
        Shown(n) == ~grown[n].entity.removed
        Removed(n) == grown[n].entity.removed
        shown == SelectSeq(NewNodes(ns, Len(es)), Shown)
        removed_nodes == SelectSeq(NewNodes(ns, Len(es)), Removed)
    IN Handled(append_children(append_children(grown, m.root, shown),
                               m.trash, removed_nodes),
               <<Signal("rowsInserted", rowCount(ns, m),
                        rowCount(ns, m) + Len(shown) - 1)>>)

\* tscat_driver.event_from_uuid answers for u
EventCached(c, u) == event_from_uuid(c, u).ok

\* AddEventsToCatalogueAction: the events are taken from the cache c; the
\* handler raises before it changes anything when one is not there
CatalogAddEvents(ns, m, a, c) ==
    IF a.cat # NodeUuid(ns[m.root]) THEN Handled(ns, <<>>)
    ELSE IF \E i \in 1..Len(a.uuids) : ~EventCached(c, a.uuids[i])
    THEN Handled(ns, <<>>)
    ELSE InsertEventNodes(ns, m, [i \in 1..Len(a.uuids) |-> c[a.uuids[i]]])

\* RestorePermanentlyDeletedAction: every restored event, of whatever catalogue
CatalogRestore(ns, m, a) ==
    LET OfEvent(d) == d.type = "Event"
        ds == SelectSeq(a.deleted, OfEvent)
    IN InsertEventNodes(ns, m, [i \in 1..Len(ds) |-> ds[i].restored_entity])

\* the rows of the uuids are removed, last row first, from row i - 1 down;
\* MoveToTrashAction appends the removed node to _trash
RECURSIVE RemoveRows(_, _, _, _, _, _)
RemoveRows(ns, m, uuids, i, sigs, trashed) ==
    IF i = 0 THEN Handled(ns, sigs)
    ELSE LET c == ns[m.root].children[i]
             gone == remove_child(ns, m.root, c)
         IN IF NodeUuid(ns[c]) \in uuids
            THEN RemoveRows(IF trashed THEN append_child(gone, m.trash, c) ELSE gone,
                            m, uuids, i - 1,
                            Append(sigs, Signal("rowsRemoved", i - 1, i - 1)), trashed)
            ELSE RemoveRows(ns, m, uuids, i - 1, sigs, trashed)

\* for c in self._trash.children[:]: the nodes of the uuids leave _trash
RECURSIVE TrashRemove(_, _, _, _)
TrashRemove(ns, m, uuids, cs) ==
    IF cs = <<>> THEN ns
    ELSE TrashRemove(IF NodeUuid(ns[Head(cs)]) \in uuids
                     THEN remove_child(ns, m.trash, Head(cs)) ELSE ns,
                     m, uuids, Tail(cs))

\* RemoveEventsFromCatalogueAction, RemoveEntitiesAction, DeletePermanentlyAction
CatalogRemove(ns, m, uuids) ==
    LET h == RemoveRows(ns, m, uuids, rowCount(ns, m), <<>>, FALSE)
    IN Handled(TrashRemove(h.nodes, m, uuids, h.nodes[m.trash].children), h.signals)

\* RestoreFromTrashAction
CatalogRestoreFromTrash(ns, m, uuids) ==
    LET InUuids(n) == NodeUuid(ns[n]) \in uuids
        moved == SelectSeq(ns[m.trash].children, InUuids)
        left == TrashRemove(ns, m, uuids, ns[m.trash].children)
    IN IF moved = <<>> THEN Handled(ns, <<>>)
       ELSE Handled(append_children(left, m.root, moved),
                    <<Signal("rowsInserted", rowCount(ns, m),
                             rowCount(ns, m) + Len(moved) - 1)>>)

\* CatalogModel._driver_action_done of the model m, the cache being c
CatalogDriverActionDone(ns, m, a, c) ==
    CASE a.type = "GetCatalogue" -> CatalogGetCatalogue(ns, m, a)
      [] a.type \in {"SetAttribute", "DeleteAttribute"} ->
            CatalogSetAttribute(ns, m, a, 1, <<>>)
      [] a.type = "AddEventsToCatalogue" -> CatalogAddEvents(ns, m, a, c)
      [] a.type = "RestorePermanentlyDeleted" -> CatalogRestore(ns, m, a)
      [] a.type = "RemoveEventsFromCatalogue" ->
            IF a.cat = NodeUuid(ns[m.root]) THEN CatalogRemove(ns, m, SeqToSet(a.uuids))
            ELSE Handled(ns, <<>>)
      [] a.type \in {"RemoveEntities", "DeletePermanently"} ->
            CatalogRemove(ns, m, SeqToSet(a.uuids))
      [] a.type = "MoveToTrash" ->
            RemoveRows(ns, m, SeqToSet(a.uuids), rowCount(ns, m), <<>>, TRUE)
      [] a.type = "RestoreFromTrash" ->
            CatalogRestoreFromTrash(ns, m, SeqToSet(a.uuids))
      [] OTHER -> Handled(ns, <<>>)

\* the CatalogModels that TscatRootModel has not deleted (deleteLater)
StillConnected(cs, cms) ==
    LET Kept(m) == \E u \in CatUUIDs : cms[u] = m
    IN SelectSeq(cs, Kept)

----------------------------------------------------------------------------
(* AppState (state.py) and the undo commands (undo.py). *)

SelectState(selected, type, selected_catalogues, catalogue_path) ==
    [selected |-> selected, type |-> type,
     selected_catalogues |-> selected_catalogues, catalogue_path |-> catalogue_path]

\* AppState.updated('active_select', ty, uuids)
Updated(sel, ty, uuids) ==
    IF uuids # sel.selected
    THEN [sel EXCEPT !.selected = uuids, !.type = ty,
                     !.selected_catalogues = IF ty = "Catalogue" THEN uuids ELSE @]
    ELSE sel

\* (the selection is left as it is found)
SelectNothing(sel, snap, uuids, type) ==
    [sel EXCEPT !.catalogue_path = snap.catalogue_path]

\* _EntityBased._select(uuids, type) of a command whose snapshot is snap;
\* the 'passive_select' update changes nothing of the record
Select(sel, snap, uuids, type) ==
    [Updated(sel, IF type = None THEN snap.type ELSE type, uuids)
        EXCEPT !.catalogue_path = snap.catalogue_path]

\* an undo command; stage is the command's place in its life cycle
Command(cls, snap) ==
    [cls |-> cls, select_state |-> snap, uuid |-> None, stage |-> "constructed",
     name |-> "attr", new_value |-> "y", previous_values |-> <<>>,
     import_dict |-> NoDict, deleted_entities |-> <<>>,
     catalogue_uuid |-> None, event_uuids |-> <<>>]

\* What a slot of the owner thread works on.
Ctx(acts, wq, sel, cmds) ==
    [actions |-> acts, workerQ |-> wq, selectState |-> sel, commands |-> cmds]

\* TscatDriver.do, called on the owner thread
Do(ctx, a) ==
    [ctx EXCEPT !.actions = Append(@, a),
                !.workerQ = Post(@, Len(ctx.actions) + 1)]

Callback(fn, cmd) == [fn |-> fn, cmd |-> cmd]
UserCallback == Callback("user", 0)

\* (a CreateEntityAction whose arguments leave the uuid to the store)
CreationArgsWithoutUuid(uuid) == [uuid |-> None, attr |-> Absent, path |-> NoPath]
CreationArgs(uuid) == [uuid |-> uuid, attr |-> Absent, path |-> NoPath]

\* SetAttributeValue._redo and _undo: the action is submitted, then the
\* selection of the snapshot is selected
SetAttributeValueDo(ctx, k, values) ==
    LET c == ctx.commands[k]
        sent == Do(ctx, SetAttributeAction(NoCallback, c.select_state.selected,
                                           c.name, values))
    IN [sent EXCEPT !.selectState = Select(@, c.select_state,
                                           c.select_state.selected, None)]

\* NewCatalogue._redo, NewEvent._redo, SetAttributeValue._redo, Import._redo
CommandRedo(ctx, k) ==
    LET c == ctx.commands[k]
        started == [ctx EXCEPT !.commands[k].stage = "redo-pending"]
    IN IF c.cls = "Import"
       THEN Do(started, ImportCanonicalizedDictAction(NoCallback, c.import_dict))
       ELSE IF c.cls = "SetAttributeValue"
       THEN SetAttributeValueDo(started, k,
                [i \in 1..Len(c.select_state.selected) |-> c.new_value])
       ELSE IF c.cls = "NewCatalogue"
       THEN Do(started, CreateEntityAction(Callback("NewCatalogue.creation_callback", k),
                                           "Catalogue",
                                           [CreationArgs(c.uuid) EXCEPT
                                               !.path = ctx.selectState.catalogue_path]))
       ELSE IF c.cls = "DeletePermanently"
       THEN Do(started, DeletePermanentlyAction(
                            Callback("DeletePermanently._redo.action_callback", k),
                            c.select_state.selected))
       ELSE IF c.cls = "AddEventsToCatalogue"
       THEN Do(started, AddEventsToCatalogueAction(
                            Callback("AddEventsToCatalogue.update_added_events", k),
                            c.event_uuids, c.catalogue_uuid))
       ELSE Do(started, CreateEntityAction(Callback("NewEvent.creation_callback", k),
                                           "Event", CreationArgs(c.uuid)))

\* NewCatalogue._undo stops at 'assert self.uuid is not None'
UndoAsserts(c) == c.cls = "NewCatalogue" /\ c.uuid = None

\* NewCatalogue._undo, NewEvent._undo, SetAttributeValue._undo, Import._undo,
\* DeletePermanently._undo
CommandUndo(ctx, k) ==
    LET c == ctx.commands[k]
        started == [ctx EXCEPT !.commands[k].stage = "undo-pending"]
    IN IF UndoAsserts(c) THEN started
       ELSE IF c.cls = "Import"
       THEN Do(Do(started, RemoveEntitiesAction(NoCallback, c.import_dict.events, TRUE)),
               RemoveEntitiesAction(NoCallback, c.import_dict.catalogues, TRUE))
       ELSE IF c.cls = "SetAttributeValue"
       THEN SetAttributeValueDo(started, k, c.previous_values)
       ELSE IF c.cls = "NewCatalogue"
       THEN Do(started, RemoveEntitiesAction(Callback("NewCatalogue.remove_callback", k),
                                             <<c.uuid>>, TRUE))
       ELSE IF c.cls = "DeletePermanently"
       THEN Do(started, RestorePermanentlyDeletedAction(
                            Callback("DeletePermanently._undo.action_callback", k),
                            c.deleted_entities))
       ELSE IF c.cls = "AddEventsToCatalogue"
       THEN LET sent == Do(started, RemoveEventsFromCatalogueAction(
                                        NoCallback, c.event_uuids, c.catalogue_uuid))
            IN [sent EXCEPT !.selectState = Select(@, c.select_state,
                                                   <<c.catalogue_uuid>>, "Catalogue")]
       ELSE Do(started, RemoveEntitiesAction(Callback("NewEvent.remove_callback", k),
                                             <<c.uuid>>, TRUE))

\* canonicalization_done of _import pushes an Import command
PushesImport(a) ==
    a.user_callback.fn = "canonicalization_done" /\ a.result = None

\* action.user_callback(action), for the callbacks of undo.py and of
\* utils/import_export.py (export_done only hands the result on)
UserCallbackCall(ctx, id) ==
    LET a == ctx.actions[id]
        fn == a.user_callback.fn
        k == a.user_callback.cmd
    IN CASE fn = "canonicalization_done" ->
                IF PushesImport(a)
                THEN CommandRedo(
                         [ctx EXCEPT !.commands =
                             Append(@, [Command("Import", ctx.selectState) EXCEPT
                                           !.import_dict = a.import_dict])],
                         Len(ctx.commands) + 1)
                ELSE ctx
         [] fn = "NewCatalogue.creation_callback" ->
                LET u == a.entities[1].uuid
                IN [ctx EXCEPT !.commands[k].uuid = u,
                               !.commands[k].stage = "applied",
                               !.selectState = Select(@, ctx.commands[k].select_state,
                                                      <<u>>, "Catalogue")]
         [] fn = "NewEvent.creation_callback" ->
                LET u == a.entities[1].uuid
                IN Do([ctx EXCEPT !.commands[k].uuid = u],
                      AddEventsToCatalogueAction(
                          Callback("NewEvent.add_to_catalogue_callback", k), <<u>>,
                          ctx.commands[k].select_state.selected_catalogues[1]))
         [] fn = "NewEvent.add_to_catalogue_callback" ->
                [ctx EXCEPT !.commands[k].stage = "applied",
                            !.selectState = Select(@, ctx.commands[k].select_state,
                                                   <<ctx.commands[k].uuid>>, "Event")]
         [] fn = "DeletePermanently._redo.action_callback" ->
                [ctx EXCEPT !.commands[k].deleted_entities = a.deleted,
                            !.commands[k].stage = "applied",
                            !.selectState = Select(@, ctx.commands[k].select_state,
                                                   <<>>, None)]
         [] fn = "DeletePermanently._undo.action_callback" ->
                [ctx EXCEPT !.commands[k].stage = "reverted",
                            !.selectState =
                                Select(@, ctx.commands[k].select_state,
                                       [i \in 1..Len(a.deleted) |-> a.deleted[i].data.uuid],
                                       None)]
         [] fn = "AddEventsToCatalogue.update_added_events" ->
                LET c == ctx.commands[k]
                    snap == [c.select_state EXCEPT
                                !.selected_catalogues = <<c.catalogue_uuid>>]
                IN [ctx EXCEPT !.commands[k].event_uuids = a.uuids,
                               !.commands[k].select_state = snap,
                               !.commands[k].stage = "applied",
                               !.selectState = Select(@, snap, a.uuids, "Event")]
         [] fn = "create_event.creation_callback" ->
                LET u == a.entities[1].uuid
                IN Do([ctx EXCEPT !.commands[k].uuid = u],
                      AddEventsToCatalogueAction(
                          Callback("create_event.added_event", k), <<u>>,
                          ctx.commands[k].name))
         [] fn = "create_event.added_event" ->
                [ctx EXCEPT !.commands[k].stage = "returned"]
         [] fn \in {"NewCatalogue.remove_callback", "NewEvent.remove_callback"} ->
                [ctx EXCEPT !.commands[k].stage = "reverted",
                            !.selectState = Select(@, ctx.commands[k].select_state,
                                                   ctx.commands[k].select_state.selected,
                                                   None)]
         [] OTHER -> ctx

----------------------------------------------------------------------------
(* The state machine. *)

\* The store the program is started on: catalogue c1, filed under folder f,
\* holding event e1.
InitialStore ==
    [u \in UUIDs |->
        CASE u = "c1" -> [Entity("c1", "Catalogue", FALSE, "x") EXCEPT !.path = <<"f">>]
          [] u = "e1" -> Entity("e1", "Event", FALSE, Absent)
          [] OTHER -> NoEntity]

InitialLinks ==
    [c \in CatUUIDs |-> [e \in EventUUIDs |-> IF c = "c1" /\ e = "e1" THEN 1 ELSE 0]]

\* After construction on the store st: TscatRootModel.__init__ has submitted
\* its two queries.
StartedWith(st, ln, mt) ==
    /\ store = st
    /\ deletedFrom = [store |-> st, links |-> ln]
    /\ links = ln
    /\ minted = mt
    /\ actions = <<GetCataloguesAction(NoCallback, FALSE),
                   GetCataloguesAction(NoCallback, TRUE)>>
    /\ workerQ = <<1, 2>>
    /\ executing = {}
    /\ workerRunning = TRUE
    /\ stopped = NotStopped
    /\ ownerQ = <<>>
    /\ cache = [u \in UUIDs |-> NoEntity]
    /\ userSubmitted = 0
    /\ raised = {}
    /\ execOrder = <<>>
    /\ cacheOrder = <<>>
    /\ prioOrder = [l \in PrioListeners |-> <<>>]
    /\ generalOrder = <<>>
    /\ cbOrder = <<>>
    /\ staleSeen = {}
    /\ selectState = SelectState(<<>>, "Catalogue", <<>>, <<>>)
    /\ commands = <<>>
    /\ stack = <<>>
    /\ stackIndex = 0
    /\ stackMoves = 0
    /\ starts = {}
    /\ assertFailed = {}
    /\ nodes = InitialNodes
    /\ catalogues = [c \in CatUUIDs |-> NoModel]
    /\ shownBefore = <<>>
    /\ connected = <<>>
    /\ emitted = <<>>
    /\ lastLookup = NoLookup

StartedOn(st) == StartedWith(st, InitialLinks, {"c1", "e1"})

Init == StartedOn(InitialStore)

\* The same, on a store whose event e1 is in trash.
InitTrashedEvent == StartedOn([InitialStore EXCEPT !["e1"].removed = TRUE])

Here == Ctx(actions, workerQ, selectState, commands)

Becomes(ctx) ==
    /\ actions' = ctx.actions
    /\ workerQ' = ctx.workerQ
    /\ selectState' = ctx.selectState
    /\ commands' = ctx.commands

\* CreateEntityActions not yet run that will have the store assign a uuid
PendingCreates(acts, cls) ==
    Cardinality({i \in 1..Len(acts) :
        /\ acts[i].type = "CreateEntity" /\ acts[i].cls = cls
        /\ acts[i].args.uuid = None
        /\ ~acts[i].completed /\ i \notin raised})

\* the model's uuid pool has a uuid left for every pending creation
PoolSuffices(acts) ==
    /\ PendingCreates(acts, "Catalogue") <= Cardinality(CatUUIDs \ minted)
    /\ PendingCreates(acts, "Event") <= Cardinality(EventUUIDs \ minted)

\* tscat_model.do(a) called from outside: the GUI, or a user of the static API;
\* max bounds the number of such calls
UserDoWithin(a, max) ==
    /\ userSubmitted < max
    /\ PoolSuffices(Append(actions, a))
    /\ userSubmitted' = userSubmitted + 1
    /\ Becomes(Do(Here, a))
    /\ UNCHANGED <<viewVars, storeVars, executing, workerRunning, stopped, ownerQ, cache, historyVars,
                   stack, stackIndex, stackMoves, starts, assertFailed>>

UserDo(a) == UserDoWithin(a, MaxUserActions)

\* (a do_action call started while another one is running)
WorkerBeginOverlapping ==
    /\ workerRunning
    /\ workerQ # <<>>
    /\ executing' = executing \cup {Head(workerQ)}
    /\ workerQ' = Tail(workerQ)
    /\ execOrder' = Append(execOrder, Head(workerQ))
    /\ UNCHANGED <<viewVars, storeVars, actions, workerRunning, stopped, ownerQ, cache, userSubmitted,
                   raised, cacheOrder, prioOrder, generalOrder, cbOrder, staleSeen,
                   undoVars>>

\* The worker's event loop takes the next posted do_action call.  Once stop()
\* has called quit(), the loop returns after the pass over the posted calls it
\* is in: a call posted since is delivered only by the pass of a worker that
\* quit() woke up, one that was idle.
WorkerBegin ==
    /\ workerRunning
    /\ workerQ # <<>>
    /\ executing = {}
    /\ stopped = NotStopped \/ Head(workerQ) <= stopped.at \/ stopped.idle
    /\ executing' = {Head(workerQ)}
    /\ workerQ' = Tail(workerQ)
    /\ execOrder' = Append(execOrder, Head(workerQ))
    /\ UNCHANGED <<viewVars, storeVars, actions, workerRunning, stopped, ownerQ, cache, userSubmitted,
                   raised, cacheOrder, prioOrder, generalOrder, cbOrder, staleSeen,
                   undoVars>>

\* _TscatDriverWorker.do_action: action.action(), completed, action_done.emit.
\* An exception leaves the slot before completed is set; PySide reports it and
\* the event loop goes on (keeps = TRUE).
DoAction(keeps) ==
    \E id \in executing :
        LET r == Run(actions[id], store, links, minted) IN
        /\ store' = r.store
        /\ links' = r.links
        /\ minted' = r.minted
        /\ deletedFrom' = IF actions[id].type = "DeletePermanently"
                          THEN [store |-> store, links |-> links] ELSE deletedFrom
        /\ executing' = executing \ {id}
        /\ actions' = [actions EXCEPT ![id] = [r.act EXCEPT !.completed = r.ok]]
        /\ ownerQ' = IF r.ok THEN Post(ownerQ, WorkerActionDoneCall(id)) ELSE ownerQ
        /\ raised' = IF r.ok THEN raised ELSE raised \cup {id}
        /\ workerRunning' = (r.ok \/ keeps)
        /\ UNCHANGED <<viewVars, workerQ, stopped, cache, userSubmitted, execOrder, cacheOrder, prioOrder,
                       generalOrder, cbOrder, staleSeen, undoVars>>

\* (an exception in the slot ends the worker's event loop)
WorkerRunDying == DoAction(FALSE)

WorkerRun == DoAction(TRUE)

\* TscatDriver.stop(): requestInterruption(), which nothing reads; wait(1000)
\* returns False after its second, since the event loop of the worker does
\* not end by itself; quit() then asks the loop to return.  do() and
\* do_action test nothing, so calls posted before or after are delivered for
\* as long as the loop has not returned.
stop ==
    /\ stopped = NotStopped
    /\ workerRunning
    /\ stopped' = [at |-> Len(actions),
                    idle |-> workerQ = <<>> /\ executing = {}]
    /\ UNCHANGED <<viewVars, storeVars, actions, workerQ, executing, workerRunning,
                   ownerQ, cache, userSubmitted, historyVars, undoVars>>

\* QThread.run returns: exec() has seen the quit() of stop() between two slot
\* calls
WorkerExit ==
    /\ workerRunning
    /\ stopped # NotStopped
    /\ executing = {}
    /\ workerRunning' = FALSE
    /\ UNCHANGED <<viewVars, storeVars, actions, workerQ, executing, stopped, ownerQ,
                   cache, userSubmitted, historyVars, undoVars>>

\* TscatDriver._worker_action_done on the owner thread: the cache update, then
\* action_done_prioritised.emit (queued to each listener), then action_done.emit,
\* which calls _Model._action_done directly: the user callback, then
\* tscat_model.action_done.emit.
WorkerActionDone ==
    /\ ownerQ # <<>>
    /\ Head(ownerQ).slot = "_worker_action_done"
    /\ LET id == Head(ownerQ).action
           a == actions[id]
           c2 == CacheUpdate(cache, a)
           called == a.user_callback # NoCallback
       IN /\ cache' = c2
          /\ cacheOrder' = Append(cacheOrder, id)
          /\ ownerQ' = Tail(ownerQ) \o
                 [i \in 1..Len(SortedListeners) |->
                     DriverActionDoneCall(SortedListeners[i], id)] \o
                 [i \in 1..Len(connected) |-> CatalogActionDoneCall(connected[i], id)]
          /\ generalOrder' = Append(generalOrder, id)
          /\ cbOrder' = IF called THEN Append(cbOrder, id) ELSE cbOrder
          /\ staleSeen' = IF Stale(c2, a)
                          THEN staleSeen \cup {<<"general", id>>}
                                         \cup (IF called THEN {<<"callback", id>>} ELSE {})
                          ELSE staleSeen
          /\ Becomes(IF called THEN UserCallbackCall(Here, id) ELSE Here)
          \* QUndoStack.push of the Import command
          /\ stack' = IF called /\ PushesImport(a)
                      THEN Append(SubSeq(stack, 1, stackIndex), Len(commands) + 1)
                      ELSE stack
          /\ stackIndex' = IF called /\ PushesImport(a) THEN stackIndex + 1 ELSE stackIndex
    /\ UNCHANGED <<viewVars, storeVars, executing, workerRunning, stopped, userSubmitted, raised,
                   execOrder, prioOrder, stackMoves, starts, assertFailed>>

\* A prioritised listener's _driver_action_done, called from the owner's queue.
DriverActionDone ==
    /\ ownerQ # <<>>
    /\ Head(ownerQ).slot = "_driver_action_done"
    /\ LET id == Head(ownerQ).action
           l == Head(ownerQ).listener
           v == RootDriverActionDone(View(nodes, catalogues), actions[id])
       IN /\ prioOrder' = [prioOrder EXCEPT ![l] = Append(@, id)]
          /\ nodes' = v.nodes
          /\ catalogues' = v.catalogues
          /\ shownBefore' = Append(shownBefore, ShownCatalogues(nodes))
          /\ connected' = StillConnected(connected, v.catalogues)
          /\ staleSeen' = IF Stale(cache, actions[id]) /\ cacheOrder[Len(cacheOrder)] = id
                          THEN staleSeen \cup {<<l, id>>} ELSE staleSeen
    /\ ownerQ' = Tail(ownerQ)
    /\ UNCHANGED <<storeVars, actions, workerQ, executing, workerRunning, stopped, cache,
                   userSubmitted, raised, execOrder, cacheOrder, generalOrder, cbOrder,
                   undoVars, emitted, lastLookup>>

\* A CatalogModel's _driver_action_done, called from the owner's queue.
CatalogModelActionDone ==
    /\ ownerQ # <<>>
    /\ Head(ownerQ).slot = "CatalogModel._driver_action_done"
    /\ LET id == Head(ownerQ).action
           m == Head(ownerQ).listener
           h == CatalogDriverActionDone(nodes, m, actions[id], cache)
       IN /\ nodes' = h.nodes
          /\ emitted' = Append(emitted, [model |-> m, action |-> id,
                                         rows |-> Rows(nodes, m),
                                         signals |-> h.signals,
                                         after |-> Rows(h.nodes, m)])
    /\ ownerQ' = Tail(ownerQ)
    /\ UNCHANGED <<storeVars, actions, workerQ, executing, workerRunning, stopped, cache,
                   userSubmitted, historyVars, undoVars, catalogues, shownBefore,
                   connected, lastLookup>>

\* tscat_driver.entity_from_uuid(u) or tscat_driver.event_from_uuid(u), called
\* on the owner thread
Lookup(fn, u) ==
    LET r == IF fn = "entity_from_uuid" THEN entity_from_uuid(cache, u)
             ELSE event_from_uuid(cache, u)
    IN /\ cache' = r.cache
       /\ lastLookup' = [fn |-> fn, uuid |-> u, before |-> cache, result |-> r]
       /\ UNCHANGED <<storeVars, actions, workerQ, executing, workerRunning, stopped, ownerQ,
                      userSubmitted, historyVars, undoVars, nodes, catalogues,
                      shownBefore, connected, emitted>>

\* TscatRootModel.catalog(uuid), for a catalogue that has no CatalogModel yet
\* and a node in the tree: the model is created on that node and connected,
\* and the catalogue is queried
catalog(uuid) ==
    /\ catalogues[uuid] = NoModel
    /\ node_from_uuid(nodes, uuid) # NoNode
    /\ LET m == CatalogModel(node_from_uuid(nodes, uuid), Len(nodes) + 1)
       IN /\ nodes' = Append(nodes, TrashNode)
          /\ catalogues' = [catalogues EXCEPT ![uuid] = m]
          /\ connected' = Append(connected, m)
    /\ Becomes(Do(Here, GetCatalogueAction(NoCallback, uuid, FALSE)))
    /\ UNCHANGED <<storeVars, executing, workerRunning, stopped, ownerQ, cache, userSubmitted,
                   historyVars, stack, stackIndex, stackMoves, starts, assertFailed,
                   shownBefore, emitted, lastLookup>>

\* a RestorePermanentlyDeletedAction has restored u, which the store holds, and
\* its completion has reached the owner thread, where the user callback runs
Restored(u) ==
    Exists(store, u) /\ \E i \in SeqToSet(cacheOrder) :
        /\ actions[i].type = "RestorePermanentlyDeleted"
        /\ actions[i].completed
        /\ \E j \in 1..Len(actions[i].deleted) :
               actions[i].deleted[j].restored_entity.uuid = u

\* what a call of catalog(uuid) did: the model it returned (NoModel when it
\* raised KeyError), the one memoized before, whether it submitted a
\* GetCatalogueAction, and the nodes there were
CatalogCalled(uuid, model, submitted) ==
    [fn |-> "catalog", uuid |-> uuid, model |-> model,
     memoized |-> catalogues[uuid], submitted |-> submitted,
     restored |-> Restored(uuid), had |-> Len(nodes)]

\* TscatRootModel.catalog(uuid), whatever _catalogues holds: a memoized model is
\* returned as it is; otherwise the CatalogNode is searched and a model is
\* made for it; with no such node, _catalogues[uuid] raises KeyError
catalog_of(uuid) ==
    LET n == node_from_uuid(nodes, uuid)
        m == CatalogModel(n, Len(nodes) + 1)
    IN IF catalogues[uuid] = NoModel /\ n # NoNode
       THEN /\ nodes' = Append(nodes, TrashNode)
            /\ catalogues' = [catalogues EXCEPT ![uuid] = m]
            /\ connected' = Append(connected, m)
            /\ lastLookup' = CatalogCalled(uuid, m, TRUE)
            /\ Becomes(Do(Here, GetCatalogueAction(NoCallback, uuid, FALSE)))
            /\ UNCHANGED <<storeVars, executing, workerRunning, stopped, ownerQ, cache,
                           userSubmitted, historyVars, stack, stackIndex, stackMoves,
                           starts, assertFailed, shownBefore, emitted>>
       ELSE /\ lastLookup' = CatalogCalled(uuid, catalogues[uuid], FALSE)
            /\ UNCHANGED <<storeVars, actions, workerQ, executing, workerRunning, stopped,
                           ownerQ, cache, userSubmitted, historyVars, undoVars, nodes,
                           catalogues, shownBefore, connected, emitted>>

----------------------------------------------------------------------------
(* Specifications. *)

Callbacks == {NoCallback, UserCallback}

\* The actions submitted from outside in Spec.  "e2" and "c2" name no entity
\* until one is created, so an action on them can raise.
DriverInputs ==
    {SetAttributeAction(cb, <<u>>, "attr", <<"y">>) : cb \in Callbacks, u \in {"c1", "c2"}}
    \cup {SetAttributeAction(NoCallback, <<"c1", "e2">>, "attr", <<"y", "y">>)}
    \cup {DeleteAttributeAction(NoCallback, <<"c1">>, "attr")}
    \cup {CreateEntityAction(cb, "Catalogue", CreationArgs(None)) : cb \in Callbacks}
    \cup {MoveToTrashAction(cb, <<u>>) : cb \in Callbacks, u \in {"c1", "e1"}}
    \cup {RestoreFromTrashAction(NoCallback, <<"c1">>)}
    \cup {GetCatalogueAction(NoCallback, "c1", FALSE)}
    \cup {RemoveEntitiesAction(NoCallback, <<"e1">>, TRUE)}
    \cup {AddEventsToCatalogueAction(cb, <<"e1">>, "c1") : cb \in Callbacks}
    \cup {DeletePermanentlyAction(NoCallback, <<"c1">>)}

\* RestorePermanentlyDeletedAction on the record of a completed deletion
RestoreInputs ==
    {RestorePermanentlyDeletedAction(NoCallback, actions[i].deleted) :
        i \in {j \in 1..Len(actions) :
                 actions[j].type = "DeletePermanently" /\ actions[j].completed}}

Submit == \E a \in DriverInputs \cup RestoreInputs : UserDo(a)

Next ==
    \/ Submit
    \/ WorkerBegin
    \/ WorkerRun
    \/ WorkerActionDone
    \/ DriverActionDone

Spec == Init /\ [][Next]_vars

\* The worker's and the owner's event loops run every slot call posted to them.
Fairness ==
    /\ WF_vars(WorkerBegin)
    /\ WF_vars(WorkerRun)
    /\ WF_vars(WorkerActionDone)
    /\ WF_vars(DriverActionDone)

\* The actions submitted from outside in FairSpec: "c2" names no entity, so
\* the action on it raises.
FairInputs ==
    {SetAttributeAction(UserCallback, <<u>>, "attr", <<"y">>) : u \in {"c1", "c2"}}
    \cup {MoveToTrashAction(NoCallback, <<"c1">>)}

SubmitFair == \E a \in FairInputs : UserDo(a)

NextFair ==
    \/ SubmitFair
    \/ WorkerBegin
    \/ WorkerRun
    \/ WorkerActionDone
    \/ DriverActionDone

FairSpec == Init /\ [][NextFair]_vars /\ Fairness

\* The actions submitted from outside in SpecTree: the ones TscatRootModel
\* moves, files, inserts and removes catalogue nodes for.  "c2" names no
\* catalogue until one is created.
TreeInputs ==
    {MoveToTrashAction(NoCallback, <<u>>) : u \in CatUUIDs}
    \cup {RestoreFromTrashAction(NoCallback, <<"c1">>)}
    \cup {SetAttributeAction(NoCallback, <<"c1">>, "path", <<NoPath>>)}
    \cup {SetAttributeAction(NoCallback, <<"c1">>, "attr", <<"y">>)}
    \cup {CreateEntityAction(NoCallback, "Catalogue",
                             [CreationArgs(None) EXCEPT !.path = <<"f">>])}
    \cup {DeletePermanentlyAction(NoCallback, <<"c1">>)}

SubmitTree == \E a \in TreeInputs \cup RestoreInputs : UserDo(a)

NextTree ==
    \/ SubmitTree
    \/ WorkerBegin
    \/ WorkerRun
    \/ WorkerActionDone
    \/ DriverActionDone

SpecTree == Init /\ [][NextTree]_vars

\* The actions submitted from outside in SpecLifecycle: permanent deletion
\* and its undo, on a store that has an event in trash.
LifecycleInputs ==
    {DeletePermanentlyAction(NoCallback, <<u>>) : u \in {"c1", "e1"}}
    \cup {MoveToTrashAction(NoCallback, <<"c1">>)}
    \cup {SetAttributeAction(NoCallback, <<"c1">>, "attr", <<"y">>)}

SubmitLifecycle == \E a \in LifecycleInputs \cup RestoreInputs : UserDo(a)

NextLifecycle ==
    \/ SubmitLifecycle
    \/ WorkerBegin
    \/ WorkerRun
    \/ WorkerActionDone
    \/ DriverActionDone

SpecLifecycle == InitTrashedEvent /\ [][NextLifecycle]_vars

\* The actions submitted from outside in SpecRoundTrip: permanent deletion of
\* a catalogue, of its event, and of both in either order, and the restores.
RoundTripInputs ==
    {DeletePermanentlyAction(NoCallback, uuids) :
        uuids \in {<<"c1">>, <<"e1">>, <<"c1", "e1">>, <<"e1", "c1">>}}

SubmitRoundTrip == \E a \in RoundTripInputs \cup RestoreInputs : UserDo(a)

NextRoundTrip ==
    \/ SubmitRoundTrip
    \/ WorkerBegin
    \/ WorkerRun
    \/ WorkerActionDone
    \/ DriverActionDone

SpecRoundTrip == Init /\ [][NextRoundTrip]_vars

\* The actions submitted from outside in SpecDelete: attributes are deleted
\* from c1, which has the attribute, and from e1, which does not have it
\* until it is set.
DeleteInputs ==
    {DeleteAttributeAction(cb, <<u>>, "attr") : cb \in Callbacks, u \in {"c1", "e1"}}
    \cup {DeleteAttributeAction(NoCallback, <<"c1", "e1">>, "attr")}
    \cup {SetAttributeAction(NoCallback, <<"e1">>, "attr", <<"y">>)}

SubmitDelete == \E a \in DeleteInputs : UserDo(a)

NextDelete ==
    \/ SubmitDelete
    \/ WorkerBegin
    \/ WorkerRun
    \/ WorkerActionDone
    \/ DriverActionDone

SpecDelete == Init /\ [][NextDelete]_vars

\* The actions submitted from outside in SpecNodes: the ones that make
\* TscatRootModel and an open CatalogModel detach, move and attach nodes.
NodesInputs ==
    {MoveToTrashAction(NoCallback, <<u>>) : u \in {"c1", "e1"}}
    \cup {RestoreFromTrashAction(NoCallback, <<u>>) : u \in {"c1", "e1"}}
    \cup {SetAttributeAction(NoCallback, <<"c1">>, "path", <<NoPath>>)}

SubmitNodes == \E a \in NodesInputs : UserDo(a)

NextNodes ==
    \/ SubmitNodes
    \/ \E c \in CatUUIDs : catalog(c)
    \/ WorkerBegin
    \/ WorkerRun
    \/ WorkerActionDone
    \/ DriverActionDone
    \/ CatalogModelActionDone

SpecNodes == Init /\ [][NextNodes]_vars

\* The actions submitted from outside in SpecMemo: the ones that take a
\* catalogue away and bring it back, while catalog(uuid) is called.
MemoInputs ==
    {DeletePermanentlyAction(NoCallback, <<"c1">>),
     RemoveEntitiesAction(NoCallback, <<"c1">>, TRUE),
     MoveToTrashAction(NoCallback, <<"c1">>)}

SubmitMemo == \E a \in MemoInputs \cup RestoreInputs : UserDo(a)

NextMemo ==
    \/ SubmitMemo
    \/ \E c \in CatUUIDs : catalog_of(c)
    \/ WorkerBegin
    \/ WorkerRun
    \/ WorkerActionDone
    \/ DriverActionDone
    \/ CatalogModelActionDone

SpecMemo == Init /\ [][NextMemo]_vars

\* The actions submitted from outside in SpecStop, before and after stop().
StopInputs ==
    {SetAttributeAction(NoCallback, <<"c1">>, "attr", <<v>>) : v \in Values}
    \cup {MoveToTrashAction(NoCallback, <<"c1">>)}

SubmitStop == \E a \in StopInputs : UserDo(a)

NextStop ==
    \/ SubmitStop
    \/ stop
    \/ WorkerBegin
    \/ WorkerRun
    \/ WorkerExit
    \/ WorkerActionDone
    \/ DriverActionDone

SpecStop == Init /\ [][NextStop]_vars

\* The worker thread is scheduled: it takes a posted call, finishes the slot it
\* runs, and returns from its event loop when it may.
FairStop ==
    /\ SpecStop
    /\ WF_vars(WorkerBegin)
    /\ WF_vars(WorkerRun)
    /\ WF_vars(WorkerExit)

\* The actions submitted from outside in SpecLookup: the ones that bring a
\* catalogue and an event into the cache.
LookupInputs ==
    {GetCatalogueAction(NoCallback, "c1", FALSE),
     SetAttributeAction(NoCallback, <<"c1">>, "attr", <<"y">>)}

SubmitLookup == \E a \in LookupInputs : UserDo(a)

\* Lookups at any moment, for uuids the store has and for uuids it has not.
NextLookup ==
    \/ SubmitLookup
    \/ \E fn \in {"entity_from_uuid", "event_from_uuid"} : \E u \in UUIDs : Lookup(fn, u)
    \/ WorkerBegin
    \/ WorkerRun
    \/ WorkerActionDone
    \/ DriverActionDone

SpecLookup == Init /\ [][NextLookup]_vars

\* The actions submitted from outside in SpecImport: _import and _export of
\* utils/import_export.py, on files that can and cannot be read and written
\* and for catalogues the store has and has not.
ImportInputs ==
    {CanonicalizeImportAction(Callback("canonicalization_done", 0), f) : f \in ImportFiles}
    \cup {ExportAction(Callback("export_done", 0), f, <<c>>) :
              f \in ExportFiles, c \in CatUUIDs}

SubmitImport == \E a \in ImportInputs : UserDo(a)

NextImport ==
    \/ SubmitImport
    \/ WorkerBegin
    \/ WorkerRun
    \/ WorkerActionDone
    \/ DriverActionDone

SpecImport == Init /\ [][NextImport]_vars

\* The actions submitted from outside in SpecCatalog: the ones that trash,
\* add and change the event of the catalogue whose CatalogModel is open.
CatalogInputs ==
    {MoveToTrashAction(NoCallback, <<"e1">>),
     AddEventsToCatalogueAction(NoCallback, <<"e1">>, "c1"),
     SetAttributeAction(NoCallback, <<"e1">>, "attr", <<"y">>)}

SubmitCatalog == \E a \in CatalogInputs : UserDoWithin(a, MaxCatalogActions)

NextCatalog ==
    \/ SubmitCatalog
    \/ \E c \in CatUUIDs : catalog(c)
    \/ WorkerBegin
    \/ WorkerRun
    \/ WorkerActionDone
    \/ DriverActionDone
    \/ CatalogModelActionDone

SpecCatalog == Init /\ [][NextCatalog]_vars

----------------------------------------------------------------------------
(* The undo stack (QUndoStack, as state.py and undo.py use it). *)

CommandClasses == {"NewCatalogue", "NewEvent"}

\* SetAttributeValue.__init__ reads the attribute of every selected entity
\* from the cache, and raises when one is not there
PreviousValues(sel) == [i \in 1..Len(sel.selected) |-> cache[sel.selected[i]].attr]
HasPreviousValues(sel) ==
    \A i \in 1..Len(sel.selected) :
        /\ cache[sel.selected[i]] # NoEntity
        /\ cache[sel.selected[i]].attr # Absent

\* AppState.push_undo_command(cls): the command snapshots the selection;
\* QUndoStack.push drops the commands above the index and calls redo()
PushUndoCommand(cls) ==
    /\ Len(commands) < MaxCommands
    /\ cls = "NewEvent" => /\ Len(selectState.selected) = 1
                           /\ selectState.selected_catalogues # <<>>
    /\ cls = "SetAttributeValue" => HasPreviousValues(selectState)
    /\ LET k == Len(commands) + 1
           new == IF cls = "SetAttributeValue"
                  THEN [Command(cls, selectState) EXCEPT
                           !.previous_values = PreviousValues(selectState)]
                  ELSE Command(cls, selectState)
           ctx == [Here EXCEPT !.commands = Append(@, new)]
       IN /\ PoolSuffices(CommandRedo(ctx, k).actions)
          /\ Becomes(CommandRedo(ctx, k))
          /\ stack' = Append(SubSeq(stack, 1, stackIndex), k)
          /\ starts' = starts \cup {<<k, "constructed", "redo",
                                      CommandRedo(ctx, k).selectState, selectState,
                                      Len(actions)>>}
    /\ stackIndex' = stackIndex + 1
    /\ UNCHANGED <<viewVars, storeVars, executing, workerRunning, stopped, ownerQ, cache, userSubmitted,
                   historyVars, stackMoves, assertFailed>>

\* AppState.push_undo_command(AddEventsToCatalogue, catalogue_uuid, event_uuids),
\* as TscatRootModel.events_dropped_on_catalogue calls it: the events are
\* dragged from the event table onto a catalogue of the tree
PushAddEventsToCatalogue(catalogue_uuid, event_uuids) ==
    /\ Len(commands) < MaxCommands
    /\ cache[catalogue_uuid] # NoEntity
    /\ \A i \in 1..Len(event_uuids) : cache[event_uuids[i]] # NoEntity
    /\ LET k == Len(commands) + 1
           new == [Command("AddEventsToCatalogue", selectState) EXCEPT
                      !.catalogue_uuid = catalogue_uuid,
                      !.event_uuids = event_uuids]
           ctx == [Here EXCEPT !.commands = Append(@, new)]
       IN /\ Becomes(CommandRedo(ctx, k))
          /\ stack' = Append(SubSeq(stack, 1, stackIndex), k)
          /\ starts' = starts \cup {<<k, "constructed", "redo",
                                      CommandRedo(ctx, k).selectState, selectState,
                                      Len(actions)>>}
    /\ stackIndex' = stackIndex + 1
    /\ UNCHANGED <<viewVars, storeVars, executing, workerRunning, stopped, ownerQ, cache, userSubmitted,
                   historyVars, stackMoves, assertFailed>>

\* QUndoStack.undo(): the command at the index is undone
StackUndo ==
    /\ stackIndex > 0
    /\ stackMoves < MaxStackMoves
    /\ LET k == stack[stackIndex]
       IN /\ Becomes(CommandUndo(Here, k))
          /\ starts' = starts \cup {<<k, commands[k].stage, "undo",
                                      CommandUndo(Here, k).selectState, selectState,
                                      Len(actions)>>}
          /\ assertFailed' = IF UndoAsserts(commands[k])
                             THEN assertFailed \cup {k} ELSE assertFailed
    /\ stackIndex' = stackIndex - 1
    /\ stackMoves' = stackMoves + 1
    /\ UNCHANGED <<viewVars, storeVars, executing, workerRunning, stopped, ownerQ, cache, userSubmitted,
                   historyVars, stack>>

\* QUndoStack.redo(): the command above the index is redone
StackRedo ==
    /\ stackIndex < Len(stack)
    /\ stackMoves < MaxStackMoves
    /\ LET k == stack[stackIndex + 1]
       IN /\ PoolSuffices(CommandRedo(Here, k).actions)
          /\ Becomes(CommandRedo(Here, k))
          /\ starts' = starts \cup {<<k, commands[k].stage, "redo",
                                      CommandRedo(Here, k).selectState, selectState,
                                      Len(actions)>>}
    /\ stackIndex' = stackIndex + 1
    /\ stackMoves' = stackMoves + 1
    /\ UNCHANGED <<viewVars, storeVars, executing, workerRunning, stopped, ownerQ, cache, userSubmitted,
                   historyVars, stack, assertFailed>>

\* The user selects a catalogue the tree shows:
\* TSCatGUI.__catalogue_selection_changed calls state.updated('active_select', ...)
\* TSCatGUI.create_event(start, stop, author, catalogue_uuid).  The locals its
\* callbacks close over are kept like a command's: catalogue_uuid under name,
\* the uuid of entity under uuid, and stage is "waiting" while
\* event_loop.exec() runs and "returned" once added_event has quit the loop.
create_event(catalogue_uuid) ==
    /\ Len(commands) < MaxCommands
    /\ LET k == Len(commands) + 1
           new == [Command("create_event", selectState) EXCEPT
                      !.name = catalogue_uuid, !.stage = "waiting"]
           ctx == Do([Here EXCEPT !.commands = Append(@, new)],
                     CreateEntityAction(Callback("create_event.creation_callback", k),
                                        "Event", CreationArgs(None)))
       IN PoolSuffices(ctx.actions) /\ Becomes(ctx)
    /\ UNCHANGED <<viewVars, storeVars, executing, workerRunning, stopped, ownerQ, cache,
                   userSubmitted, historyVars, stack, stackIndex, stackMoves, starts,
                   assertFailed>>

UserSelectCatalogue(c) ==
    /\ cache[c] # NoEntity
    /\ selectState.selected # <<c>>
    /\ selectState' = Updated(selectState, "Catalogue", <<c>>)
    /\ UNCHANGED <<viewVars, storeVars, actions, workerQ, executing, workerRunning, stopped, ownerQ,
                   cache, userSubmitted, historyVars, commands, stack, stackIndex,
                   stackMoves, starts, assertFailed>>

\* The user changes the selection of the events view:
\* TSCatGUI.__current_event_changed calls state.updated('active_select', ...)
UserSelectEvents(uuids) ==
    /\ \A i \in 1..Len(uuids) : cache[uuids[i]] # NoEntity
    /\ selectState.selected_catalogues # <<>>
    /\ selectState.selected # uuids \/ selectState.type # "Event"
    /\ selectState' = Updated(selectState, "Event", uuids)
    /\ UNCHANGED <<viewVars, storeVars, actions, workerQ, executing, workerRunning, stopped,
                   ownerQ, cache, userSubmitted, historyVars, commands, stack,
                   stackIndex, stackMoves, starts, assertFailed>>

NextUndo ==
    \/ \E cls \in CommandClasses : PushUndoCommand(cls)
    \/ StackUndo
    \/ StackRedo
    \/ \E c \in CatUUIDs : UserSelectCatalogue(c)
    \/ WorkerBegin
    \/ WorkerRun
    \/ WorkerActionDone
    \/ DriverActionDone

SpecUndo == Init /\ [][NextUndo]_vars

\* SetAttributeValue commands on the undo stack, and the user changing the
\* selection in between.
NextSelect ==
    \/ PushUndoCommand("SetAttributeValue")
    \/ StackUndo
    \/ StackRedo
    \/ \E c \in CatUUIDs : UserSelectCatalogue(c)
    \/ \E uuids \in {<<>>} \cup {<<e>> : e \in EventUUIDs} : UserSelectEvents(uuids)
    \/ WorkerBegin
    \/ WorkerRun
    \/ WorkerActionDone
    \/ DriverActionDone

SpecSelect == Init /\ [][NextSelect]_vars

\* The actions submitted from outside in SpecRevert: the attribute that the
\* SetAttributeValue commands set is set by others as well.
RevertInputs ==
    {SetAttributeAction(NoCallback, <<"c1">>, "attr", <<v>>) : v \in Values}

SubmitRevert == \E a \in RevertInputs : UserDo(a)

NextRevert ==
    \/ SubmitRevert
    \/ PushUndoCommand("SetAttributeValue")
    \/ StackUndo
    \/ StackRedo
    \/ \E c \in CatUUIDs : UserSelectCatalogue(c)
    \/ WorkerBegin
    \/ WorkerRun
    \/ WorkerActionDone
    \/ DriverActionDone

SpecRevert == Init /\ [][NextRevert]_vars

\* DeletePermanently commands on the selected catalogue, undone and redone.
NextDeleteUndo ==
    \/ PushUndoCommand("DeletePermanently")
    \/ StackUndo
    \/ StackRedo
    \/ \E c \in CatUUIDs : UserSelectCatalogue(c)
    \/ WorkerBegin
    \/ WorkerRun
    \/ WorkerActionDone
    \/ DriverActionDone

SpecDeleteUndo == Init /\ [][NextDeleteUndo]_vars

\* A store holding a second catalogue, c2, next to c1 and its event, which
\* has a value for the attribute.
InitTwoCatalogues ==
    StartedOn([InitialStore EXCEPT !["c2"] = Entity("c2", "Catalogue", FALSE, "x"),
                                   !["e1"] = Entity("e1", "Event", FALSE, "x")])

\* The action submitted from outside in SpecSnapshot: the events of c1 are
\* queried, once (TscatRootModel.catalog keeps the model it made), so that
\* there is an event to select.
SnapshotInputs == {GetCatalogueAction(NoCallback, "c1", FALSE)}

SubmitSnapshot == \E a \in SnapshotInputs : UserDoWithin(a, 1)

\* SetAttributeValue commands pushed and undone while the user selects
\* catalogues and events.
NextSnapshot ==
    \/ SubmitSnapshot
    \/ PushUndoCommand("SetAttributeValue")
    \/ StackUndo
    \/ StackRedo
    \/ \E c \in CatUUIDs : UserSelectCatalogue(c)
    \/ \E uuids \in {<<>>} \cup {<<e>> : e \in EventUUIDs} : UserSelectEvents(uuids)
    \/ WorkerBegin
    \/ WorkerRun
    \/ WorkerActionDone
    \/ DriverActionDone

SpecSnapshot == InitTwoCatalogues /\ [][NextSnapshot]_vars

\* The actions submitted from outside in SpecRestoreRows: event e1 is deleted
\* permanently, and restored from the record of the deletion.
RestoreRowsInputs == {DeletePermanentlyAction(NoCallback, <<"e1">>)}

SubmitRestoreRows == \E a \in RestoreRowsInputs \cup RestoreInputs : UserDo(a)

\* The CatalogModels of c1, which holds e1, and of c2, which holds no event,
\* are open while e1 is deleted and restored.
NextRestoreRows ==
    \/ SubmitRestoreRows
    \/ \E c \in CatUUIDs : catalog(c)
    \/ WorkerBegin
    \/ WorkerRun
    \/ WorkerActionDone
    \/ DriverActionDone
    \/ CatalogModelActionDone

SpecRestoreRows == InitTwoCatalogues /\ [][NextRestoreRows]_vars

\* Catalogue c1 has the predicate attr == "x"; event e1 has attr "x" and is
\* assigned to no catalogue.
InitPredicate ==
    StartedWith([InitialStore EXCEPT
                    !["c1"] = [@ EXCEPT !.predicate = "x"],
                    !["e1"] = Entity("e1", "Event", FALSE, "x")],
                [c \in CatUUIDs |-> [e \in EventUUIDs |-> 0]], {"c1", "e1"})

PredicateInputs ==
    {AddEventsToCatalogueAction(NoCallback, <<"e1">>, "c1"),
     SetAttributeAction(NoCallback, <<"e1">>, "attr", <<"y">>)}

SubmitPredicate == \E a \in PredicateInputs : UserDo(a)

\* The view of a catalogue with a predicate is opened, and the events the
\* predicate selects are attached to the catalogue or changed.
NextPredicate ==
    \/ SubmitPredicate
    \/ \E c \in CatUUIDs : catalog(c)
    \/ WorkerBegin
    \/ WorkerRun
    \/ WorkerActionDone
    \/ DriverActionDone
    \/ CatalogModelActionDone

SpecPredicate == InitPredicate /\ [][NextPredicate]_vars

\* The actions submitted from outside in SpecPartial: actions on c1 and on a
\* second entity they fail on, c2 and e2 naming no entity and e1 having no
\* value for the attribute.
PartialInputs ==
    {SetAttributeAction(NoCallback, <<"c1", "e2">>, "attr", <<"y", "y">>),
     DeleteAttributeAction(NoCallback, <<"c1", "e1">>, "attr"),
     MoveToTrashAction(NoCallback, <<"c1", "c2">>),
     RestoreFromTrashAction(NoCallback, <<"c1", "c2">>),
     DeletePermanentlyAction(NoCallback, <<"c1", "c2">>)}

SubmitPartial == \E a \in PartialInputs : UserDo(a)

NextPartial ==
    \/ SubmitPartial
    \/ WorkerBegin
    \/ WorkerRun
    \/ WorkerActionDone
    \/ DriverActionDone

SpecPartial == Init /\ [][NextPartial]_vars

\* The actions submitted from outside in SpecImportUndo: in.json is imported,
\* once, and the events of the imported catalogue are queried.
SubmitImportUndo ==
    \/ UserDoWithin(CanonicalizeImportAction(Callback("canonicalization_done", 0),
                                             "in.json"), 1)
    \/ UserDo(GetCatalogueAction(NoCallback, "c2", FALSE))

\* The Import command that canonicalization_done pushes is undone and redone.
NextImportUndo ==
    \/ SubmitImportUndo
    \/ StackUndo
    \/ StackRedo
    \/ WorkerBegin
    \/ WorkerRun
    \/ WorkerActionDone
    \/ DriverActionDone

SpecImportUndo == Init /\ [][NextImportUndo]_vars

\* A store that holds catalogue c1 and no event.
InitNoEvent ==
    StartedWith([InitialStore EXCEPT !["e1"] = NoEntity],
                [c \in CatUUIDs |-> [e \in EventUUIDs |-> 0]], {"c1"})

\* NewCatalogue and NewEvent commands are pushed, undone and redone on a store
\* without events.
NextRecreate ==
    \/ \E cls \in CommandClasses : PushUndoCommand(cls)
    \/ StackUndo
    \/ StackRedo
    \/ \E c \in CatUUIDs : UserSelectCatalogue(c)
    \/ WorkerBegin
    \/ WorkerRun
    \/ WorkerActionDone
    \/ DriverActionDone

SpecRecreate == InitNoEvent /\ [][NextRecreate]_vars

\* The actions submitted from outside in SpecAddEvents: the events of c1 are
\* queried and a second event is created, so that there are events to drag.
AddEventsInputs ==
    {GetCatalogueAction(NoCallback, "c1", FALSE),
     CreateEntityAction(NoCallback, "Event", CreationArgs(None))}

SubmitAddEvents == \E a \in AddEventsInputs : UserDo(a)

\* the lists of events dropped on c1
DroppedEvents == {<<"e1">>, <<"e2">>, <<"e1", "e2">>}

\* Events are dropped on catalogue c1, and the command is undone and redone.
NextAddEvents ==
    \/ SubmitAddEvents
    \/ \E es \in DroppedEvents : PushAddEventsToCatalogue("c1", es)
    \/ StackUndo
    \/ StackRedo
    \/ WorkerBegin
    \/ WorkerRun
    \/ WorkerActionDone
    \/ DriverActionDone

SpecAddEvents == Init /\ [][NextAddEvents]_vars

\* The actions submitted from outside in SpecNewEvent: a catalogue is
\* created and catalogues are queried, as TscatRootModel.catalog does for a
\* catalogue that gets selected.
NewEventInputs ==
    {CreateEntityAction(NoCallback, "Catalogue", CreationArgs(None))}
    \cup {GetCatalogueAction(NoCallback, c, FALSE) : c \in CatUUIDs}

SubmitNewEvent == \E a \in NewEventInputs : UserDo(a)

\* NewEvent commands pushed while a catalogue is selected.
NextNewEvent ==
    \/ SubmitNewEvent
    \/ PushUndoCommand("NewEvent")
    \/ \E c \in CatUUIDs : UserSelectCatalogue(c)
    \/ WorkerBegin
    \/ WorkerRun
    \/ WorkerActionDone
    \/ DriverActionDone

SpecNewEvent == Init /\ [][NextNewEvent]_vars

\* NewEvent commands pushed and create_event called while catalogues are
\* created, queried and selected.
NextChain ==
    \/ SubmitNewEvent
    \/ PushUndoCommand("NewEvent")
    \/ \E c \in CatUUIDs : create_event(c)
    \/ \E c \in CatUUIDs : UserSelectCatalogue(c)
    \/ WorkerBegin
    \/ WorkerRun
    \/ WorkerActionDone
    \/ DriverActionDone

SpecChain == Init /\ [][NextChain]_vars

\* The calls of the blocking adapters: _export on a catalogue list and a file,
\* _import of a file.  "c2" names no entity, denied.json cannot be written,
\* broken.json cannot be read.
AdapterInputs ==
    {ExportAction(Callback("export_done", 0), f, <<c>>) :
        f \in ExportFiles, c \in CatUUIDs}
    \cup {CanonicalizeImportAction(Callback("canonicalization_done", 0), f) :
              f \in ImportFiles}

SubmitAdapter == \E a \in AdapterInputs : UserDoWithin(a, 1)

\* create_event, _export and _import are called, and the worker's and the
\* owner's event loops run.
NextAdapters ==
    \/ SubmitAdapter
    \/ \E c \in CatUUIDs : create_event(c)
    \/ WorkerBegin
    \/ WorkerRun
    \/ WorkerActionDone
    \/ DriverActionDone

SpecAdapters == Init /\ [][NextAdapters]_vars /\ Fairness

----------------------------------------------------------------------------
(* The claims. *)

Ascending(s) == \A i, j \in 1..Len(s) : i < j => s[i] < s[j]
Count(s, x) == Cardinality({i \in 1..Len(s) : s[i] = x})

\* nothing is posted, queued or running
Quiescent == workerQ = <<>> /\ executing = {} /\ ownerQ = <<>>

\* C1: the worker starts the actions in submission order, none skipped, and
\* the owner thread handles their completions (cache update, user callback,
\* general and prioritised listeners) in submission order.
FifoOrder ==
    /\ \A i \in 1..Len(execOrder) : execOrder[i] = i
    /\ Ascending(cacheOrder)
    /\ Ascending(cbOrder)
    /\ Ascending(generalOrder)
    /\ \A l \in PrioListeners : Ascending(prioOrder[l])

\* three completions handled, one of them with a user callback, while the
\* worker is already running a later action and the owner thread still has a
\* listener call to make
FifoWitness ==
    /\ Len(cacheOrder) >= 3
    /\ Len(cbOrder) >= 1
    /\ Len(prioOrder["TscatRootModel"]) >= 2
    /\ executing # {}
    /\ ownerQ # <<>>

\* C2: an action the general listener (_Model._action_done) has handled has
\* been handled by every prioritised listener before.
PrioritisedBeforeGeneral ==
    \A i \in 1..Len(generalOrder) :
        \A l \in PrioListeners : generalOrder[i] \in SeqToSet(prioOrder[l])

\* the action types C3 names
CacheClaimTypes ==
    {"GetCatalogues", "GetCatalogue", "CreateEntity", "SetAttribute",
     "DeleteAttribute", "MoveToTrash", "RestoreFromTrash",
     "RestorePermanentlyDeleted"}

\* C3: once the driver has handled the completion of an action of these
\* types, entity_from_uuid answers, for every uuid of an output entity of the
\* action, that output entity.  (Only _worker_action_done writes the cache, so
\* the cache of any state is the one its latest call left.)
CacheReflectsOutputs ==
    cacheOrder # <<>> =>
        (actions[Last(cacheOrder)].type \in CacheClaimTypes
            => ~Stale(cache, actions[Last(cacheOrder)]))

HasCallback(i) == actions[i].user_callback # NoCallback

\* C4: a user callback is called at most once, only for a completed action,
\* and, once nothing is left to run, exactly once for every action submitted
\* with one.  (The call is part of a slot of the owner thread.)
CallbackExactlyOnce ==
    /\ \A i \in 1..Len(actions) : Count(cbOrder, i) <= 1
    /\ \A i \in SeqToSet(cbOrder) : HasCallback(i) /\ actions[i].completed
    /\ Quiescent => \A i \in 1..Len(actions) : HasCallback(i) => Count(cbOrder, i) = 1

\* C5: callbacks and listeners run only for actions whose cache update has
\* run, and none of them sees a cache that differs from an output entity of
\* its action.
CacheUpdatedBeforeObserved ==
    /\ SeqToSet(cbOrder) \subseteq SeqToSet(cacheOrder)
    /\ SeqToSet(generalOrder) \subseteq SeqToSet(cacheOrder)
    /\ \A l \in PrioListeners : SeqToSet(prioOrder[l]) \subseteq SeqToSet(cacheOrder)
    /\ staleSeen = {}

\* C6: once nothing is left to run, every action whose execution raised has
\* had its completion reported, and its callback called if it has one.
FailureSurfaced ==
    Quiescent =>
        \A i \in raised :
            /\ i \in SeqToSet(generalOrder)
            /\ HasCallback(i) => i \in SeqToSet(cbOrder)

\* C7: every submitted action is executed, in submission order, and unless it
\* raises itself its completion is delivered, whatever raised before it.
FailureDoesNotStopWorker ==
    /\ [](\A i \in 1..Len(execOrder) : execOrder[i] = i)
    /\ \A i \in 1..(2 + MaxUserActions) :
           [](Len(actions) >= i =>
                 <>(i \in raised \/ i \in SeqToSet(generalOrder)))

\* the completion of an action submitted after one that raised is delivered
DeliveredAfterFailure ==
    \E i \in raised : \E j \in SeqToSet(cbOrder) : j > i

\* C8: at most one action is being executed at any moment.
AtMostOneExecuting == Cardinality(executing) <= 1

\* an action is being executed while the next one waits in the worker's queue
ExecutingWhileQueued == executing # {} /\ Len(workerQ) >= 2

\* C9: an undo starts only from applied and a redo only from constructed or
\* reverted, and 'assert self.uuid is not None' never fails.
UndoOnlyFromApplied ==
    /\ \A t \in starts :
          /\ t[3] = "undo" => t[2] = "applied"
          /\ t[3] = "redo" => t[2] \in {"constructed", "reverted"}
    /\ assertFailed = {}

\* C10: no event is assigned to the same catalogue twice.
NoDoubleAssignment ==
    \A c \in CatUUIDs : \A e \in EventUUIDs : links[c][e] <= 1

\* the last two actions TscatRootModel handled are MoveToTrashAction([u]) and,
\* submitted next, RestoreFromTrashAction([u]), and the main tree showed u
\* before the first
TrashRoundTripDone(u) ==
    LET po == prioOrder["TscatRootModel"]
        k == Len(po)
    IN /\ k >= 2
       /\ po[k] = po[k - 1] + 1
       /\ actions[po[k - 1]].type = "MoveToTrash"
       /\ actions[po[k]].type = "RestoreFromTrash"
       /\ actions[po[k - 1]].uuids = <<u>>
       /\ actions[po[k]].uuids = <<u>>
       /\ \E e \in shownBefore[k - 1] : e.uuid = u

AssignedTo(ln, c) == {e \in EventUUIDs : ln[c][e] > 0}

\* the last two actions executed are DeletePermanentlyAction([c]) and, on its
\* record, RestorePermanentlyDeletedAction, both completed
DeleteRestoreDone(c) ==
    LET j == Len(execOrder)
    IN /\ j >= 2
       /\ executing = {}
       /\ actions[j - 1].type = "DeletePermanently"
       /\ actions[j - 1].uuids = <<c>>
       /\ actions[j - 1].completed
       /\ actions[j].type = "RestorePermanentlyDeleted"
       /\ actions[j].completed
       /\ Len(actions[j].deleted) = 1
       /\ actions[j].deleted[1].data.uuid = c

\* C12: after DeletePermanentlyAction([c]) on a catalogue c and
\* RestorePermanentlyDeletedAction on its record, the store has catalogue c
\* with the attributes and the in-trash flag it had before the deletion, and
\* exactly the events assigned to it before the deletion are assigned to it.
DeleteRestoreRoundTrip ==
    \A c \in CatUUIDs :
        DeleteRestoreDone(c) =>
            /\ store[c] = deletedFrom.store[c]
            /\ AssignedTo(links, c) = AssignedTo(deletedFrom.links, c)

\* command t[1] is a SetAttributeValue command constructed while exactly
\* catalogue c was selected, and t records an undo of it
SetAttributeValueUndone(t, c) ==
    /\ commands[t[1]].cls = "SetAttributeValue"
    /\ commands[t[1]].select_state.selected = <<c>>
    /\ commands[t[1]].select_state.type = "Catalogue"
    /\ t[3] = "undo"

\* C13: the undo of a SetAttributeValue command constructed while exactly
\* catalogue c was selected leaves the selection [c] of type catalogue.
UndoRestoresSelection ==
    \A t \in starts : \A c \in CatUUIDs :
        SetAttributeValueUndone(t, c) =>
            t[4].selected = <<c>> /\ t[4].type = "Catalogue"

\* such an undo has run while something else was selected
UndoRestoresSelectionWitness ==
    \E t \in starts : \E c \in CatUUIDs :
        SetAttributeValueUndone(t, c) /\ t[5].selected # <<c>>

\* action i has been executed
Executed(i) == i \in SeqToSet(execOrder) /\ i \notin executing

\* an earlier completed CreateEntityAction created u
CreatedBefore(i, u) ==
    \E m \in 1..(i - 1) :
        /\ actions[m].type = "CreateEntity"
        /\ actions[m].completed
        /\ actions[m].entities[1].uuid = u

\* action i is the AddEventsToCatalogueAction([e], c) of a NewEvent command,
\* c and e were created by earlier actions, and no action before i assigns
\* e or assigns to c
AddsFreshEvent(i, c, e) ==
    /\ actions[i].type = "AddEventsToCatalogue"
    /\ actions[i].user_callback.fn = "NewEvent.add_to_catalogue_callback"
    /\ actions[i].cat = c
    /\ commands[actions[i].user_callback.cmd].uuid = e
    /\ CreatedBefore(i, c)
    /\ CreatedBefore(i, e)
    /\ \A m \in 1..(i - 1) : actions[m].type # "AddEventsToCatalogue"

\* action j is a GetCatalogueAction(c) with no assignment to c submitted
\* between i and j
GetsAfter(i, j, c) ==
    /\ actions[j].type = "GetCatalogue"
    /\ actions[j].cat = c
    /\ ~actions[j].flag
    /\ \A m \in (i + 1)..(j - 1) : actions[m].type # "AddEventsToCatalogue"

\* C14: AddEventsToCatalogueAction([e], c) on a freshly created catalogue c
\* and a freshly created, unassigned event e completes with uuids [e], and a
\* GetCatalogueAction(c) executed afterwards returns exactly the event e.
FreshEventAdded ==
    \A i \in 1..Len(actions) : \A c \in CatUUIDs : \A e \in EventUUIDs :
        AddsFreshEvent(i, c, e) /\ Executed(i) =>
            /\ actions[i].completed
            /\ actions[i].uuids = <<e>>
            /\ \A j \in (i + 1)..Len(actions) :
                  GetsAfter(i, j, c) /\ Executed(j) =>
                      /\ actions[j].completed
                      /\ Len(actions[j].entities) = 1
                      /\ actions[j].entities[1].uuid = e

\* the event of a NewEvent command has been added to a catalogue created
\* before, and the catalogue has been queried afterwards
FreshEventAddedWitness ==
    \E i \in 1..Len(actions) : \E c \in CatUUIDs : \E e \in EventUUIDs :
        /\ AddsFreshEvent(i, c, e) /\ Executed(i)
        /\ \E j \in (i + 1)..Len(actions) : GetsAfter(i, j, c) /\ Executed(j)

\* call k of a CatalogModel handled a SetAttributeAction on the one event e,
\* which the model showed
ShownEventSet(k, e) ==
    /\ actions[emitted[k].action].type = "SetAttribute"
    /\ Len(actions[emitted[k].action].entities) = 1
    /\ actions[emitted[k].action].entities[1].uuid = e
    /\ e \in SeqToSet(emitted[k].rows)

\* C15: a CatalogModel that shows event e and handles a SetAttributeAction on
\* e emits exactly one signal, dataChanged for the row of e, and its rows are
\* the same, in the same order, afterwards.
OneDataChanged ==
    \A k \in 1..Len(emitted) : \A e \in EventUUIDs :
        ShownEventSet(k, e) =>
            /\ Len(emitted[k].signals) = 1
            /\ emitted[k].signals[1].signal = "dataChanged"
            /\ emitted[k].signals[1].first = emitted[k].signals[1].last
            /\ emitted[k].rows[emitted[k].signals[1].first + 1] = e
            /\ emitted[k].after = emitted[k].rows

\* C16: entity_from_uuid(u) fails for a uuid that is not in the cache and
\* otherwise answers the cached entity, and leaves the cache as it is;
\* event_from_uuid(u) fails as well when the cached entity is not an event.
CacheOnlyLookup ==
    lastLookup # NoLookup =>
        LET before == lastLookup.before
            u == lastLookup.uuid
            r == lastLookup.result
        IN /\ before[u] = NoEntity => ~r.ok
           /\ r.ok => r.value = before[u] /\ r.value # NoEntity
           /\ r.cache = before
           /\ lastLookup.fn = "event_from_uuid" /\ before[u] # NoEntity
                  /\ before[u].kind # "Event" => ~r.ok

\* the last lookup was for an entity the store has and the cache has not
CacheOnlyLookupWitness ==
    /\ lastLookup # NoLookup
    /\ lastLookup.before[lastLookup.uuid] = NoEntity
    /\ Exists(store, lastLookup.uuid)
    /\ cache # [u \in UUIDs |-> NoEntity]

\* action i is an ExportAction or a CanonicalizeImportAction
ReportsResult(i) == actions[i].type \in {"Export", "CanonicalizeImport"}

\* a CanonicalizeImportAction that has run and has failed
FailedCanonicalization(a) == a.type = "CanonicalizeImport" /\ a.result # None

\* no failure has left action(): the action is completed, its result is the
\* error or None, and its callback is called once
FailureInResult ==
    /\ \A i \in 1..Len(actions) :
          ReportsResult(i) =>
              /\ i \notin raised
              /\ Count(cbOrder, i) <= 1
              /\ Quiescent => Count(cbOrder, i) = 1
              /\ Executed(i) =>
                    /\ actions[i].completed
                    /\ actions[i].filename \in {"broken.json", "denied.json"}
                          => actions[i].result = Error
                    /\ actions[i].type = "CanonicalizeImport" =>
                          IF actions[i].filename = "in.json"
                          THEN actions[i].result = None /\ actions[i].import_dict = InDict
                          ELSE actions[i].import_dict = NoDict
    /\ Cardinality({k \in 1..Len(commands) : commands[k].cls = "Import"}) =
           Cardinality({i \in SeqToSet(cbOrder) :
                           actions[i].type = "CanonicalizeImport"
                           /\ actions[i].result = None})

\* this step runs action i, or handles its completion
StepOf(i) ==
    \/ i \in executing /\ i \notin executing'
    \/ cacheOrder' # cacheOrder /\ Last(cacheOrder') = i
    \/ prioOrder' # prioOrder /\ Last(prioOrder'["TscatRootModel"]) = i

\* the steps of a failed canonicalization change neither the store, nor the
\* cache, nor the trees, nor the undo stack
FailedImportChangesNothing ==
    \A i \in 1..Len(actions) :
        StepOf(i) /\ FailedCanonicalization(actions'[i]) =>
            UNCHANGED <<store, links, cache, nodes, catalogues, commands, stack,
                        stackIndex>>

\* C17: ExportAction and CanonicalizeImportAction complete whatever fails,
\* with the error in result (None on success) and the callback called; a
\* failed canonicalization pushes no Import command and changes neither the
\* store, nor the cache, nor the trees.
ImportExportReport ==
    /\ []FailureInResult
    /\ [][FailedImportChangesNothing]_vars

\* a canonicalization and an export have failed and their callbacks have been
\* called
ImportExportFailed ==
    /\ Quiescent
    /\ \E i \in SeqToSet(cbOrder) : FailedCanonicalization(actions[i])
    /\ \E i \in SeqToSet(cbOrder) :
          actions[i].type = "Export" /\ actions[i].result = Error

\* action i is a DeleteAttributeAction and entity u of its uuids exists
\* without the attribute
DeletesMissing(i, u) ==
    /\ actions[i].type = "DeleteAttribute"
    /\ u \in SeqToSet(actions[i].uuids)
    /\ Exists(store, u)
    /\ store[u][actions[i].name] = Absent

\* the run of a DeleteAttributeAction on an entity without the attribute
\* raises: the entity is not appended to action.entities, the action is not
\* completed and no completion is posted
DeleteMissingRaises ==
    \A i \in executing : \A u \in UUIDs :
        DeletesMissing(i, u) /\ i \notin executing' =>
            /\ i \in raised'
            /\ ~actions'[i].completed
            /\ \A j \in 1..Len(actions'[i].entities) : actions'[i].entities[j].uuid # u
            /\ ownerQ' = ownerQ

\* no completion of an action that raised is delivered
RaisedNotDelivered ==
    \A i \in raised :
        /\ ~actions[i].completed
        /\ i \notin SeqToSet(cacheOrder) \cup SeqToSet(generalOrder) \cup SeqToSet(cbOrder)
        /\ \A l \in PrioListeners : i \notin SeqToSet(prioOrder[l])
        /\ \A k \in 1..Len(ownerQ) : ownerQ[k].action # i

\* C18: DeleteAttributeAction on an entity that does not have the attribute
\* fails: the entity is not appended to action.entities and no completion of
\* the action is delivered.
DeleteMissingFails ==
    /\ [][DeleteMissingRaises]_vars
    /\ []RaisedNotDelivered

\* a DeleteAttributeAction with a callback has raised on e1, nothing is left
\* to run, and a DeleteAttributeAction on c1 has completed
DeleteMissingFailed ==
    /\ Quiescent
    /\ \E i \in raised :
          /\ actions[i].type = "DeleteAttribute"
          /\ actions[i].uuids = <<"e1">>
          /\ HasCallback(i)
    /\ \E i \in SeqToSet(generalOrder) : actions[i].type = "DeleteAttribute"

\* the places of node c in the children lists: <<n, i>> for children[i] of n
Slots(ns, c) ==
    {<<n, i>> \in (1..Len(ns)) \X (1..Len(ns)) :
        i <= Len(ns[n].children) /\ ns[n].children[i] = c}

\* C19: in every node tree the parent of children[i] of n is n, a node that
\* is in a children list is in one list only and once, and remove_child(c)
\* leaves c with no parent and in no children list.
ParentOfChildren ==
    /\ \A n \in 1..Len(nodes) : \A i \in 1..Len(nodes[n].children) :
          nodes[nodes[n].children[i]].parent = n
    /\ \A c \in 1..Len(nodes) : Cardinality(Slots(nodes, c)) <= 1
    /\ \A n \in 1..Len(nodes) : \A i \in 1..Len(nodes[n].children) :
          LET c == nodes[n].children[i]
              after == remove_child(nodes, n, c)
          IN after[c].parent = NoNode /\ Slots(after, c) = {}

\* TscatRootModel has moved a catalogue node to its Trash, and a CatalogModel
\* has moved an event node to its own
ParentOfChildrenWitness ==
    /\ \E c \in SeqToSet(nodes[Trash].children) : nodes[c].cls = "CatalogNode"
    /\ \E m \in SeqToSet(connected) :
          \E c \in SeqToSet(nodes[m.trash].children) : nodes[c].cls = "EventNode"

\* the places, in the children lists of the tree of TscatRootModel, of the
\* CatalogNodes that carry catalogue u
CatalogSlots(ns, u) ==
    {s \in UNION {Slots(ns, c) : c \in CatalogNodesOf(ns, 1..Len(ns), u)} :
        s[1] \in Below(ns, Root)}

\* a catalogue has at most one CatalogNode in the main tree and the Trash
\* subtree together, at one place
AtMostOneNode == \A u \in CatUUIDs : Cardinality(CatalogSlots(nodes, u)) <= 1

\* this step is TscatRootModel handling action i
RootHandles(i) ==
    prioOrder' # prioOrder /\ Last(prioOrder'["TscatRootModel"]) = i

\* when TscatRootModel handles a MoveToTrashAction or RestoreFromTrashAction,
\* every catalogue keeps the node it has, and the node of a moved catalogue
\* is under Trash after the one and in the main tree after the other
SameNodeMoved ==
    \A i \in 1..Len(actions) :
        RootHandles(i) /\ actions[i].type \in {"MoveToTrash", "RestoreFromTrash"} =>
            \A u \in CatUUIDs :
                LET was == CatalogNodesOf(nodes, Below(nodes, Root), u)
                    is == CatalogNodesOf(nodes', Below(nodes', Root), u)
                IN /\ is = was
                   /\ u \in SeqToSet(actions[i].uuids) =>
                          IF actions[i].type = "MoveToTrash"
                          THEN is \subseteq TrashNodes(nodes')
                          ELSE is \subseteq MainNodes(nodes')

FolderHoldsCatalogue ==
    \A n \in Below(nodes, Root) :
        nodes[n].cls = "FolderNode"
            => \E d \in Below(nodes, n) : nodes[d].cls = "CatalogNode"

\* the rows a signal of a begin/end bracket names
RowsNamed(s) == s.last - s.first + 1

\* the rows call k of a CatalogModel announced as inserted, less those it
\* announced as removed
RECURSIVE RowsAnnounced(_, _)
RowsAnnounced(k, j) ==
    IF j = 0 THEN 0
    ELSE LET s == emitted[k].signals[j]
         IN RowsAnnounced(k, j - 1)
            + (IF s.signal = "rowsInserted" THEN RowsNamed(s)
               ELSE IF s.signal = "rowsRemoved" THEN 0 - RowsNamed(s)
               ELSE 0)

\* C22: every begin-insert and begin-remove bracket of a CatalogModel names a
\* row range with 0 <= first <= last, never an empty or inverted one, and the
\* ranges of one call name exactly the rows the call inserted or removed.
ValidRowRanges ==
    \A k \in 1..Len(emitted) :
        /\ \A j \in 1..Len(emitted[k].signals) :
               emitted[k].signals[j].signal \in {"rowsInserted", "rowsRemoved"}
                   => /\ 0 <= emitted[k].signals[j].first
                      /\ emitted[k].signals[j].first <= emitted[k].signals[j].last
        /\ \/ \E j \in 1..Len(emitted[k].signals) :
                  emitted[k].signals[j].signal = "modelReset"
           \/ Len(emitted[k].after)
                  = Len(emitted[k].rows) + RowsAnnounced(k, Len(emitted[k].signals))

\* this step is TscatRootModel handling a RemoveEntitiesAction or a
\* DeletePermanentlyAction that names u
RootHandlesRemovalOf(u) ==
    \E i \in 1..Len(actions) :
        /\ RootHandles(i)
        /\ actions[i].type \in {"RemoveEntities", "DeletePermanently"}
        /\ u \in SeqToSet(actions[i].uuids)

\* what the last call of catalog(uuid) did: a memoized model is returned as it
\* is and nothing is submitted; a model that is made is a new one, with one
\* GetCatalogueAction submitted; a restored catalogue gets a model
CatalogMemoizes ==
    lastLookup.fn = "catalog" =>
        /\ lastLookup.memoized # NoModel =>
               lastLookup.model = lastLookup.memoized /\ ~lastLookup.submitted
        /\ lastLookup.memoized = NoModel /\ lastLookup.model # NoModel =>
               lastLookup.model.trash > lastLookup.had /\ lastLookup.submitted
        /\ lastLookup.restored => lastLookup.model # NoModel

\* C23: catalog(uuid) makes the model of a catalogue once and returns the same
\* one on every later call, submitting a GetCatalogueAction only when it makes
\* it; the model is dropped exactly when TscatRootModel handles a completed
\* RemoveEntitiesAction or DeletePermanentlyAction naming the uuid, and
\* catalog(uuid) on the restored catalogue makes a new model.
MemoizedModel ==
    /\ []CatalogMemoizes
    /\ [][\A u \in CatUUIDs :
              /\ catalogues[u] # NoModel /\ catalogues'[u] # catalogues[u]
                     => catalogues'[u] = NoModel /\ RootHandlesRemovalOf(u)
              /\ RootHandlesRemovalOf(u) => catalogues'[u] = NoModel]_vars

\* action i is the CreateEntityAction of NewEvent._redo or of create_event
\* number k, action j the AddEventsToCatalogueAction of the same
IsCreationOf(acts, i, k) ==
    /\ acts[i].type = "CreateEntity"
    /\ acts[i].user_callback.cmd = k
    /\ acts[i].user_callback.fn
           \in {"NewEvent.creation_callback", "create_event.creation_callback"}
IsAttachOf(acts, j, k) ==
    /\ acts[j].type = "AddEventsToCatalogue"
    /\ acts[j].user_callback.cmd = k
    /\ acts[j].user_callback.fn
           \in {"NewEvent.add_to_catalogue_callback", "create_event.added_event"}

\* where action i is in the order the worker started the actions, 0 if nowhere
StartedAt(i) ==
    IF i \in SeqToSet(execOrder)
    THEN CHOOSE p \in 1..Len(execOrder) : execOrder[p] = i ELSE 0

\* an attach is there only once the callback of its creation has run, names
\* the uuid the creation produced, and is started after the creation is over
AttachFollowsCreation ==
    \A j \in 1..Len(actions) : \A k \in 1..Len(commands) :
        IsAttachOf(actions, j, k) =>
            \E i \in 1..(j - 1) :
                /\ IsCreationOf(actions, i, k)
                /\ actions[i].completed
                /\ i \in SeqToSet(cbOrder)
                /\ actions[j].uuids = <<actions[i].entities[1].uuid>>
                /\ StartedAt(j) > 0 => 0 < StartedAt(i) /\ StartedAt(i) < StartedAt(j)
                /\ j \in executing => i \notin executing

\* an attach is submitted in the step that runs the callback of its creation
AttachSubmittedInCallback ==
    \A j \in (Len(actions) + 1)..Len(actions') : \A k \in 1..Len(commands') :
        IsAttachOf(actions', j, k) =>
            \E i \in 1..Len(actions) :
                /\ IsCreationOf(actions, i, k)
                /\ cbOrder' = Append(cbOrder, i)

\* NewEvent has selected its event, and create_event has returned, only once
\* the callback of the completed attach has run
NotifiedAfterAttach ==
    \A k \in 1..Len(commands) :
        (\/ commands[k].cls = "NewEvent" /\ commands[k].stage = "applied"
         \/ commands[k].cls = "create_event" /\ commands[k].stage = "returned")
            => \E j \in 1..Len(actions) :
                   /\ IsAttachOf(actions, j, k)
                   /\ actions[j].completed
                   /\ j \in SeqToSet(cbOrder)

\* C24: in NewEvent.redo and create_event the AddEventsToCatalogueAction is
\* submitted only from the completion callback of the CreateEntityAction,
\* names the uuid the creation produced and is executed after the creation;
\* the selection, or the return of create_event, comes only after the attach
\* has completed.
AttachChained ==
    /\ [](AttachFollowsCreation /\ NotifiedAfterAttach)
    /\ [][AttachSubmittedInCallback]_vars

\* a NewEvent command has selected the event it created and attached
AttachChainedWitness ==
    \E k \in 1..Len(commands) :
        /\ commands[k].cls = "NewEvent" /\ commands[k].stage = "applied"
        /\ selectState.selected = <<commands[k].uuid>>
        /\ \E j \in 1..Len(actions) : IsAttachOf(actions, j, k) /\ actions[j].completed

\* after stop() the event loop of the worker returns (under FairStop), every
\* slot call it was running being over
StopTerminates == (stopped # NotStopped) ~> (~workerRunning /\ executing = {})

\* C25: no action submitted after stop() is ever executed: the worker starts
\* only actions that were submitted before stop() was called.
NothingExecutedAfterStop ==
    stopped # NotStopped => \A i \in SeqToSet(execOrder) : i <= stopped.at

\* the input fields of an action
Inputs(a) ==
    [uuids |-> a.uuids, catalogue_uuid |-> a.cat, name |-> a.name,
     values |-> a.values, import_dict |-> a.import_dict]

\* C26: the input fields of an action (uuids, catalogue_uuid, name, values,
\* import_dict) hold after every step, its execution included, the values
\* they were submitted with.
InputsFrozen ==
    [][\A i \in 1..Len(actions) : Inputs(actions'[i]) = Inputs(actions[i])]_vars

\* the value of attribute name of u in the store when action i begins: what
\* the last action before i that set or deleted it left, the worker running
\* the actions one after the other in submission order
RECURSIVE ValueBefore(_, _, _)
ValueBefore(i, u, name) ==
    IF i = 1 THEN InitialStore[u][name]
    ELSE LET a == actions[i - 1]
             at == {p \in 1..Len(a.uuids) : a.uuids[p] = u}
         IN IF a.completed /\ a.name = name /\ at # {}
                /\ a.type \in {"SetAttribute", "DeleteAttribute"}
            THEN IF a.type = "SetAttribute"
                 THEN a.values[CHOOSE p \in at : \A q \in at : q <= p]
                 ELSE Absent
            ELSE ValueBefore(i - 1, u, name)

\* r records a redo of the SetAttributeValue command k and u the undo that
\* followed it; the SetAttributeActions of the two are r[6] + 1 and u[6] + 1,
\* no other action was submitted in between, and the one of the undo is the
\* last the worker has run
RedoneAndUndone(r, u) ==
    /\ commands[r[1]].cls = "SetAttributeValue"
    /\ r[1] = u[1] /\ r[3] = "redo" /\ u[3] = "undo"
    /\ u[6] = r[6] + 1
    /\ execOrder # <<>> /\ Last(execOrder) = u[6] + 1
    /\ Executed(u[6] + 1)
    /\ actions[r[6] + 1].completed /\ actions[u[6] + 1].completed

\* C27: after the redo and the undo of a SetAttributeValue command have both
\* completed, the attribute of every selected entity is what the store held
\* for it when the action of the redo began, whatever the cache held when the
\* command was constructed.
UndoRestoresStore ==
    \A r \in starts : \A u \in starts :
        RedoneAndUndone(r, u) =>
            \A p \in 1..Len(commands[r[1]].select_state.selected) :
                LET e == commands[r[1]].select_state.selected[p]
                IN store[e].attr = ValueBefore(r[6] + 1, e, "attr")

\* the deleted_entities of an action as DeletePermanentlyAction produced them
Produced(ds) == [i \in 1..Len(ds) |-> [ds[i] EXCEPT !.restored_entity = NoEntity]]

\* u records an undo of the DeletePermanently command k and r its most recent
\* redo before; their actions are r[6] + 1 and u[6] + 1
LastRedoBefore(r, u) ==
    /\ commands[r[1]].cls = "DeletePermanently"
    /\ r[1] = u[1] /\ r[3] = "redo" /\ u[3] = "undo"
    /\ r[6] < u[6]
    /\ \A t \in starts : t[1] = r[1] /\ t[3] = "redo" /\ t[6] < u[6] => t[6] <= r[6]

\* C28: the RestorePermanentlyDeletedAction of the undo of a DeletePermanently
\* command carries the deleted_entities that the DeletePermanentlyAction of
\* the most recent redo produced, whenever the undo was requested.
UndoRestoresDeleted ==
    \A r \in starts : \A u \in starts :
        (/\ LastRedoBefore(r, u)
         /\ actions[r[6] + 1].completed
         /\ Executed(u[6] + 1))
            => Produced(actions[u[6] + 1].deleted) = Produced(actions[r[6] + 1].deleted)

\* action i is a completed DeletePermanentlyAction, and the next action is
\* the RestorePermanentlyDeletedAction on its deleted_entities, which the
\* worker has run last
RestoredAfter(i) ==
    /\ i < Len(actions)
    /\ actions[i].type = "DeletePermanently" /\ actions[i].completed
    /\ actions[i + 1].type = "RestorePermanentlyDeleted"
    /\ Produced(actions[i + 1].deleted) = Produced(actions[i].deleted)
    /\ execOrder # <<>> /\ Last(execOrder) = i + 1 /\ Executed(i + 1)

\* C29: RestorePermanentlyDeletedAction on the deleted_entities of a
\* DeletePermanentlyAction completes without error, and the store then holds
\* every deleted entity as it was, with every assignment there was before.
RestoreCompletes ==
    \A i \in 1..Len(actions) :
        RestoredAfter(i) =>
            /\ i + 1 \notin raised
            /\ actions[i + 1].completed
            /\ \A u \in SeqToSet(actions[i].uuids) : store[u] = deletedFrom.store[u]
            /\ links = deletedFrom.links

\* in this step the undo of command k has selected: _undo itself for a
\* SetAttributeValue command, the callback of its action for a NewCatalogue,
\* NewEvent or DeletePermanently command
UndoSelects(k) ==
    \/ /\ commands[k].cls = "SetAttributeValue"
       /\ \E t \in starts' \ starts : t[1] = k /\ t[3] = "undo"
    \/ /\ commands[k].cls \in {"NewCatalogue", "NewEvent", "DeletePermanently"}
       /\ commands[k].stage # "reverted"
       /\ commands'[k].stage = "reverted"

\* C30: when the undo of a command has completed, the selection record of
\* AppState (selected, type, selected_catalogues, catalogue_path) is the
\* snapshot the command took at construction, and no step alters the snapshot
\* of a command.
SelectionIsSnapshot ==
    [][\A k \in 1..Len(commands) :
           /\ commands'[k].select_state = commands[k].select_state
           /\ UndoSelects(k) => selectState' = commands[k].select_state]_vars

\* t records a redo or an undo of an AddEventsToCatalogue command whose action,
\* t[6] + 1, the worker finishes in this step
AddEventsStepRuns(t, kind) ==
    /\ commands[t[1]].cls = "AddEventsToCatalogue"
    /\ t[3] = kind
    /\ t[6] + 1 \in executing /\ t[6] + 1 \notin executing'

\* r records the last redo of the command of t that began before t
LastRedoOf(r, t) ==
    /\ r[1] = t[1] /\ r[3] = "redo" /\ r[6] < t[6]
    /\ \A q \in starts : (q[1] = t[1] /\ q[3] = "redo" /\ q[6] < t[6]) => q[6] <= r[6]

\* C31: the action of an undo of an AddEventsToCatalogue command detaches
\* exactly the events the action of the redo before it attached, so that the
\* events assigned before the redo stay assigned, and the action of a further
\* redo attaches exactly those events again.
UndoDetachesAttached ==
    [][\A t \in starts : \A r \in starts :
           LET c == commands[t[1]].catalogue_uuid
               attached == SeqToSet(actions[r[6] + 1].uuids)
           IN /\ (AddEventsStepRuns(t, "undo") /\ LastRedoOf(r, t)) =>
                     AssignedTo(links', c) = AssignedTo(links, c) \ attached
              /\ (AddEventsStepRuns(t, "redo") /\ LastRedoOf(r, t)) =>
                     AssignedTo(links', c) = AssignedTo(links, c) \cup attached]_vars

\* r1, u and r2 record the first redo of a NewCatalogue or NewEvent command,
\* its undo, started when the command was applied, and the redo that followed,
\* started when it was reverted; nothing has been started on the command since
\* and the CreateEntityAction of r2, r2[6] + 1, has run
RedoUndoRedo(r1, u, r2) ==
    /\ commands[r1[1]].cls \in {"NewCatalogue", "NewEvent"}
    /\ r1[1] = u[1] /\ u[1] = r2[1]
    /\ r1[2] = "constructed" /\ r1[3] = "redo"
    /\ u[2] = "applied" /\ u[3] = "undo" /\ r1[6] < u[6]
    /\ r2[2] = "reverted" /\ r2[3] = "redo" /\ u[6] < r2[6]
    /\ \A t \in starts : t[1] = r1[1] => t[6] <= r2[6]
    /\ Executed(r2[6] + 1)

\* C32: after redo, undo, redo of a NewCatalogue or NewEvent command, each
\* completed before the next started, the second creation has completed with
\* the uuid the store assigned in the first, the command holds that uuid, and
\* the entity of that uuid, the only one the command created, is in the store.
SameUuidAfterRedo ==
    \A r1 \in starts : \A u \in starts : \A r2 \in starts :
        RedoUndoRedo(r1, u, r2) =>
            LET first == actions[r1[6] + 1]
                second == actions[r2[6] + 1]
                k == r1[1]
            IN /\ first.type = "CreateEntity" /\ first.args.uuid = None
               /\ first.completed
               /\ second.type = "CreateEntity" /\ second.completed
               /\ second.entities[1].uuid = first.entities[1].uuid
               /\ commands[k].uuid = first.entities[1].uuid
               /\ Exists(store, first.entities[1].uuid)
               /\ store[first.entities[1].uuid].kind =
                      (IF commands[k].cls = "NewCatalogue" THEN "Catalogue" ELSE "Event")

SameUuidAfterRedoWitness ==
    \E r1 \in starts : \E u \in starts : \E r2 \in starts :
        /\ RedoUndoRedo(r1, u, r2)
        /\ commands[r1[1]].cls = "NewEvent"
        /\ commands[r1[1]].stage = "applied"
        /\ Quiescent

\* the uuids an import dict lists
DictUuids(d) == SeqToSet(d.catalogues) \cup SeqToSet(d.events)

\* the last of the undos and redos started on command k is of that kind, and
\* nothing is left to run (the redo of QUndoStack.push is not among starts for
\* an Import command, which canonicalization_done pushes)
LastStarted(k, kind) ==
    /\ Quiescent
    /\ \E t \in starts :
           /\ t[1] = k /\ t[3] = kind
           /\ \A q \in starts : q[1] = k => q[6] <= t[6]

ImportUndone ==
    \A k \in 1..Len(commands) :
        (commands[k].cls = "Import" /\ LastStarted(k, "undo")) =>
            \A u \in DictUuids(commands[k].import_dict) :
                /\ ~Exists(store, u)
                /\ cache[u] = NoEntity
                /\ CatalogNodesOf(nodes, Below(nodes, Root), u) = {}

ImportRedone ==
    \A k \in 1..Len(commands) :
        (commands[k].cls = "Import" /\ LastStarted(k, "redo")) =>
            /\ \A u \in DictUuids(commands[k].import_dict) : Exists(store, u)
            /\ \A i \in 1..Len(commands[k].import_dict.catalogues) :
                   Cardinality(CatalogNodesOf(nodes, Below(nodes, Root),
                                              commands[k].import_dict.catalogues[i])) = 1

ImportDictKept ==
    \A k \in 1..Len(commands) :
        commands[k].cls = "Import" =>
            /\ commands'[k].import_dict = commands[k].import_dict
            /\ \A i \in (Len(actions) + 1)..Len(actions') :
                   actions'[i].type = "ImportCanonicalizedDict" =>
                       actions'[i].import_dict = commands[k].import_dict

\* C33: no step changes the dict an Import command holds, and every redo
\* submits that dict; once the undo is over, no uuid of the dict is in the
\* store, in the cache or on a node of the tree; once a further redo is over,
\* the entities of the dict are in the store and every catalogue of the dict
\* has exactly one node in the tree.
ImportRoundTrip ==
    /\ []ImportUndone
    /\ []ImportRedone
    /\ [][ImportDictKept]_vars

ImportRoundTripWitness ==
    \E k \in 1..Len(commands) :
        /\ commands[k].cls = "Import"
        /\ LastStarted(k, "redo")
        /\ cache["e2"] # NoEntity

\* the catalogue uuids carried by a CatalogNode among S
CataloguesAmong(ns, S) == {u \in CatUUIDs : CatalogNodesOf(ns, S, u) # {}}

\* C34: whenever nothing is posted, queued or running, the main tree has a
\* CatalogNode for exactly the catalogues of the store that are not in trash,
\* the Trash subtree for exactly those in trash, and the node of a catalogue
\* that is not in trash hangs under the folders of its path.
ProjectionAgrees ==
    Quiescent =>
        /\ CataloguesAmong(nodes, MainNodes(nodes)) =
               {u \in CatUUIDs : Exists(store, u) /\ ~store[u].removed}
        /\ CataloguesAmong(nodes, TrashNodes(nodes)) =
               {u \in CatUUIDs : Exists(store, u) /\ store[u].removed}
        /\ \A u \in CatUUIDs : \A n \in CatalogNodesOf(nodes, MainNodes(nodes), u) :
               Exists(store, u) => full_path(nodes, nodes[n].parent) = store[u].path

\* the worker ends action id in this step, and its action() has raised
RaisesNow(id) == id \in executing /\ id \notin executing' /\ id \in raised'

\* C40: when a SetAttributeAction, DeleteAttributeAction, MoveToTrashAction,
\* RestoreFromTrashAction or DeletePermanentlyAction fails on an entity of its
\* uuids, no entity of that list has been modified in the store.
AllOrNothing ==
    [][\A id \in 1..Len(actions) :
           (/\ actions[id].type \in {"SetAttribute", "DeleteAttribute", "MoveToTrash",
                                     "RestoreFromTrash", "DeletePermanently"}
            /\ RaisesNow(id)) =>
               \A i \in 1..Len(actions[id].uuids) :
                   store'[actions[id].uuids[i]] = store[actions[id].uuids[i]]]_vars

\* the user callback of action id is called in this step
CallbackCalledNow(id) == id \notin SeqToSet(cbOrder) /\ id \in SeqToSet(cbOrder')

\* C35: when the user callback of an action is called, every prioritised
\* listener has handled that action and the actions completed before it, and
\* the tree has a node for the catalogue the action created, which a lookup
\* made from the callback finds.
CallbackFindsNode ==
    [][\A id \in 1..Len(actions) :
           CallbackCalledNow(id) =>
               /\ \A l \in PrioListeners :
                      \A m \in SeqToSet(cacheOrder') : m \in SeqToSet(prioOrder[l])
               /\ (actions[id].type = "CreateEntity" /\ actions[id].cls = "Catalogue") =>
                      node_from_uuid(nodes, actions[id].entities[1].uuid) # NoNode]_vars

\* TscatDriver._worker_action_done handles the completion of action id in
\* this step
CompletionHandledNow(id) ==
    id \notin SeqToSet(cacheOrder) /\ id \in SeqToSet(cacheOrder')

\* C36: once the driver has handled the completion of a DeletePermanentlyAction
\* or of a RemoveEntitiesAction with permanently=True, the cache holds no
\* entity for any of the uuids the action deleted.
DeletedLeaveCache ==
    [][\A id \in 1..Len(actions) :
           (/\ CompletionHandledNow(id)
            /\ \/ actions[id].type = "DeletePermanently"
               \/ actions[id].type = "RemoveEntities" /\ actions[id].flag) =>
               \A i \in 1..Len(actions[id].uuids) :
                   cache'[actions[id].uuids[i]] = NoEntity]_vars

\* the restored events of action a that were linked to catalogue c
RestoredEventsOf(a, c) ==
    {a.deleted[i].data.uuid :
        i \in {j \in 1..Len(a.deleted) :
                 /\ a.deleted[j].type = "Event"
                 /\ c \in SeqToSet(a.deleted[j].linked_uuids)}}

\* C37: a CatalogModel that handles a RestorePermanentlyDeletedAction gains
\* rows only for the restored events that were linked to its catalogue before
\* the deletion; the model of any other catalogue keeps the rows it had.
RestoredRowsLinked ==
    \A i \in 1..Len(emitted) :
        LET r == emitted[i]
            a == actions[r.action]
            c == NodeUuid(nodes[r.model.root])
        IN a.type = "RestorePermanentlyDeleted" =>
               /\ \A e \in EventUUIDs :
                      Count(r.after, e) > Count(r.rows, e) => e \in RestoredEventsOf(a, c)
               /\ RestoredEventsOf(a, c) = {} => r.after = r.rows

\* C38: a CatalogModel holds at most one row per event uuid, also after an
\* AddEventsToCatalogueAction for its catalogue has been handled.
OneRowPerEvent ==
    \A c \in CatUUIDs :
        catalogues[c] # NoModel =>
            \A e \in EventUUIDs : Count(Rows(nodes, catalogues[c]), e) <= 1

\* a call of a blocking adapter is in its local event loop: a create_event has
\* not had added_event called, or the action of an _export or _import has not
\* had its callback called
CreateEventWaits ==
    \E k \in 1..Len(commands) :
        commands[k].cls = "create_event" /\ commands[k].stage = "waiting"
AdapterActionWaits ==
    \E i \in 1..Len(actions) :
        /\ actions[i].user_callback.fn \in {"export_done", "canonicalization_done"}
        /\ i \notin SeqToSet(cbOrder)

\* C39: every call of a blocking adapter returns: whenever create_event,
\* _export or _import wait in their event loops, the callbacks that quit the
\* loops are eventually called and no call is left waiting.
AdaptersReturn == []<>(~CreateEventWaits /\ ~AdapterActionWaits)

====
